---- MODULE Spec2Model ----
(***************************************************************************)
(* WebScrapeToolkit: the conversational session engine (chatbot.py), the   *)
(* scraper with AI summary it drives (ai_integration_guide.py), the AI     *)
(* analysis orchestrator (ai_enhanced_scraper.py) and the hosting layer's  *)
(* instance registry (web_ui.py).                                          *)
(*                                                                         *)
(* Conventions.  A Python Optional is a sequence of length at most one:    *)
(* None is <<>> and a present value v is <<v>>.  A Python dict that is     *)
(* read in insertion order is a sequence of [k, v] entries.  A chat        *)
(* message is read by the code in two ways only, by keyword containment    *)
(* and by re.findall of the URL pattern, so a message is the set of        *)
(* keywords it contains and the sequence of its URL-like tokens, with its  *)
(* text kept as a name.  A reply is a sequence of lines.                   *)
(***************************************************************************)
EXTENDS Integers, Sequences, FiniteSets, TLC

VARIABLES
    environ,            \* os.environ: which provider API keys are set
    bot,                \* the WebScrapingChatbot instance under test
    db_pages,           \* rows written by DatabaseService.save_scraped_page
    ret,                \* outcome of the last process_message call
    scrape_log,         \* every result scrape_with_summary returned, in order
    ai,                 \* the AIEnhancedScraper instance under test
    run,                \* the scrape_with_ai_analysis call in progress
    flask_session,      \* per browser: the session cookie's session_id
    chatbot_instances,  \* web_ui.chatbot_instances: key -> engine id
    engines,            \* every engine the hosting layer constructed
    http,               \* the last HTTP response of the hosting layer
    uuids,              \* how many uuid4() values have been drawn
    web,                \* a WebScraper instance, its clock and its last call
    classified,         \* the last _analyze_intent call: message and result
    threads             \* the chat requests the server's threads are handling

vars == <<environ, bot, db_pages, ret, scrape_log, ai, run,
          flask_session, chatbot_instances, engines, http, uuids, web, classified,
          threads>>

(***************************************************************************)
(* Bounds                                                                  *)
(***************************************************************************)
MaxCalls == 2
MaxDeepCalls == 4

(***************************************************************************)
(* Python values                                                           *)
(***************************************************************************)
None == <<>>
Some(v) == <<v>>
IsNone(o) == o = <<>>
Val(o) == o[1]

\* dict lookups on an insertion-ordered dict
DictHas(d, k) == \E i \in 1..Len(d) : d[i].k = k
DictIndex(d, k) == CHOOSE i \in 1..Len(d) : d[i].k = k
DictGet(d, k) == d[DictIndex(d, k)].v
DictKeys(d) == [i \in 1..Len(d) |-> d[i].k]

\* other ways a write could behave, against which the claims are measured:
\* the written key moves to the end, the first value is kept, a failed result
\* removes the entry
DictSet_MoveToEnd(d, k, v) ==
    LET rest == SelectSeq(d, LAMBDA e : e.k # k)
    IN  Append(rest, [k |-> k, v |-> v])
DictSet_KeepFirst(d, k, v) ==
    IF DictHas(d, k) THEN d ELSE Append(d, [k |-> k, v |-> v])
DictSet_DropFailed(d, k, v) ==
    IF v.scraping_successful
    THEN DictSet_MoveToEnd(d, k, v)
    ELSE SelectSeq(d, LAMBDA e : e.k # k)
\* d[k] = v: a new key is appended, an existing key keeps its position
DictSet(d, k, v) ==
    IF DictHas(d, k)
    THEN [d EXCEPT ![DictIndex(d, k)] = [k |-> k, v |-> v]]
    ELSE Append(d, [k |-> k, v |-> v])

(***************************************************************************)
(* URLs (utils.py)                                                         *)
(***************************************************************************)
Url(scheme, netloc, path) == [scheme |-> scheme, netloc |-> netloc, path |-> path]
UA1   == Url("https", "a.test", "/1")
UA2   == Url("http", "a.test", "/2")
UB    == Url("https", "b.test", "/")
UBad  == Url("https", "", "/x")
UBare == Url("", "a.test", "")

HasHttpPrefix(u) == u.scheme \in {"http", "https"}
normalize_url(u) == IF HasHttpPrefix(u) THEN u ELSE [u EXCEPT !.scheme = "https"]
extract_domain(u) == normalize_url(u).netloc
is_valid_url(u) ==
    LET n == normalize_url(u)
    IN  n.scheme # "" /\ n.netloc # "" /\ n.scheme \in {"http", "https"}

(***************************************************************************)
(* Chat messages and intent (chatbot.py, _analyze_intent)                  *)
(***************************************************************************)
Message(text, kw, targets) == [text |-> text, kw |-> kw, targets |-> targets]
Contains(message, words) == message.kw \cap words # {}

\* re.findall(r'https?://[^\s]+', message): the tokens that carry a scheme
FindUrls(message) == SelectSeq(message.targets, HasHttpPrefix)

ScrapeWords   == {"scrape", "fetch", "get", "extract from"}
AnalyzeWords  == {"analyze", "analysis", "sentiment", "summary", "summarize"}
ShowWords     == {"show", "display", "list", "links", "images", "data"}
HelpWords     == {"help", "commands", "what can you do"}
StatsWords    == {"stats", "statistics", "session", "summary"}

\* a classifier that looks for the analyze keywords first, against which C16
\* is measured
IntentAction_AnalyzeFirst(message) ==
    IF Contains(message, AnalyzeWords) THEN "analyze"
    ELSE IF Contains(message, ScrapeWords) THEN "scrape"
    ELSE IF Contains(message, ShowWords) THEN "show_data"
    ELSE IF Contains(message, HelpWords) THEN "help"
    ELSE IF Contains(message, StatsWords) THEN "stats"
    ELSE "unknown"

IntentAction(message) ==
    IF Contains(message, ScrapeWords) THEN "scrape"
    ELSE IF Contains(message, AnalyzeWords) THEN "analyze"
    ELSE IF Contains(message, ShowWords) THEN "show_data"
    ELSE IF Contains(message, HelpWords) THEN "help"
    ELSE IF Contains(message, StatsWords) THEN "stats"
    ELSE "unknown"

IntentParameters(message) ==
    [show_links        |-> Contains(message, {"links"}),
     show_images       |-> Contains(message, {"images"}),
     analyze_sentiment |-> Contains(message, {"sentiment", "feeling", "emotion"}),
     generate_summary  |-> Contains(message, {"summary", "summarize", "main points"})]

analyze_intent(message) ==
    [action     |-> IntentAction(message),
     urls       |-> FindUrls(message),
     parameters |-> IntentParameters(message)]

(***************************************************************************)
(* What the outside world answers during one scrape_with_summary call      *)
(***************************************************************************)
\* the page as WebScraper.scrape_page returns it (web_scraper.py:378-415)
PageFailed ==
    [error |-> TRUE, title |-> None, has_text |-> FALSE, text_len |-> 0,
     words |-> 0, ctype |-> "General Content", links |-> 0]
PageEmpty ==
    [error |-> FALSE, title |-> Some("T"), has_text |-> FALSE, text_len |-> 0,
     words |-> 0, ctype |-> "General Content", links |-> 0]
PageShort ==
    [error |-> FALSE, title |-> Some("T"), has_text |-> TRUE, text_len |-> 40,
     words |-> 8, ctype |-> "Blog Post", links |-> 1]
PageLong ==
    [error |-> FALSE, title |-> Some("T"), has_text |-> TRUE, text_len |-> 120,
     words |-> 20, ctype |-> "News Article", links |-> 2]

\* the JSON value the insights call yields (ai_integration_guide.py:164-221)
InsightsDefault ==
    [jt |-> "object", sentiment |-> "neutral", sentiment_is_str |-> TRUE,
     key_topics |-> <<>>, language_quality |-> "unknown", error |-> FALSE]
InsightsOfReply(reply) ==
    CASE reply = "ok" ->
            [jt |-> "object", sentiment |-> "positive", sentiment_is_str |-> TRUE,
             key_topics |-> <<"news">>, language_quality |-> "high", error |-> FALSE]
      [] reply = "bad_field" ->
            [jt |-> "object", sentiment |-> "0.8", sentiment_is_str |-> FALSE,
             key_topics |-> <<"news">>, language_quality |-> "high", error |-> FALSE]
      [] reply = "array" ->
            [jt |-> "array", sentiment |-> "", sentiment_is_str |-> FALSE,
             key_topics |-> <<>>, language_quality |-> "", error |-> FALSE]
      [] OTHER -> [InsightsDefault EXCEPT !.error = TRUE]

World(page, insights, db) == [page |-> page, insights |-> insights, db |-> db]

(***************************************************************************)
(* SimpleAIEnhancedScraper (ai_integration_guide.py)                       *)
(***************************************************************************)
SummaryTooShort == "Content too short for meaningful summary"

\* _generate_summary: the text under 50 characters is not sent to a provider
generate_summary(b, w) ==
    IF w.page.text_len < 50 THEN SummaryTooShort
    ELSE IF b.openai_available
         THEN (IF w.insights = "raise" THEN "OpenAI summarization error" ELSE "summary text")
    ELSE IF b.anthropic_available
         THEN (IF w.insights = "raise" THEN "Anthropic summarization error" ELSE "summary text")
    ELSE "AI service not configured - API key needed"

\* _get_ai_insights: OpenAI first, Anthropic only when OpenAI is not available
get_ai_insights(b, w) ==
    IF b.openai_available \/ b.anthropic_available
    THEN InsightsOfReply(w.insights)
    ELSE InsightsDefault

analyze_content(b, w) ==
    [word_count             |-> w.page.words,
     character_count        |-> w.page.text_len,
     estimated_reading_time |-> w.page.words \div 200,
     content_type           |-> w.page.ctype,
     ai_insights            |-> IF b.openai_available \/ b.anthropic_available
                                THEN Some(get_ai_insights(b, w)) ELSE None]

\* the provider requests one scrape_with_summary call sends
ProviderCalls(b, w) ==
    LET who == IF b.openai_available THEN "openai" ELSE "anthropic"
    IN  IF w.page.has_text /\ (b.openai_available \/ b.anthropic_available)
        THEN (IF w.page.text_len < 50 THEN <<>> ELSE << <<who, "summarize">> >>)
             \o << <<who, "insights">> >>
        ELSE <<>>

AiConfigured(b) == b.openai_available \/ b.anthropic_available

scrape_with_summary(b, url, w) ==
    LET useAi == w.page.has_text /\ AiConfigured(b)
    IN  [url                 |-> url,
         scraping_successful |-> ~w.page.error,
         title               |-> w.page.title,
         content_length      |-> IF w.page.has_text THEN w.page.text_len ELSE 0,
         links_count         |-> w.page.links,
         ai_summary          |-> IF useAi THEN Some(generate_summary(b, w)) ELSE None,
         ai_analysis         |-> IF useAi THEN Some(analyze_content(b, w)) ELSE None,
         requires_api_key    |-> ~useAi]

(***************************************************************************)
(* WebScrapingChatbot (chatbot.py)                                         *)
(***************************************************************************)
Line(tag, s, n) == [tag |-> tag, s |-> s, n |-> n]
Returned(lines) == [raised |-> FALSE, text |-> lines]
Raised(what) == [raised |-> TRUE, text |-> <<Line(what, "", 0)>>]

\* __init__, lines 33-55: the fields of a constructed engine
WebScrapingChatbot_init(provider, env, sid) ==
    [ai_provider          |-> provider,
     openai_available     |-> env.openai_key,
     anthropic_available  |-> env.anthropic_key,
     conversation_history |-> <<>>,
     scraped_data         |-> <<>>,
     session_stats        |-> [pages_scraped |-> 0, total_links_found |-> 0,
                               total_content_analyzed |-> 0],
     session_id           |-> sid,
     ai_available         |-> IF provider = "openai" THEN env.openai_key
                              ELSE IF provider = "anthropic" THEN env.anthropic_key
                              ELSE FALSE,
     response_provider    |-> IF env.openai_key THEN "openai"
                              ELSE IF env.anthropic_key THEN "anthropic"
                              ELSE "none"]

NoUrlReply == <<Line("Please provide a URL", "", 0)>>
BlankLine == Line("", "", 0)

\* the reply section of one scraped URL (lines 239-260)
ScrapeSection(b, url, result) ==
    IF result.scraping_successful
    THEN <<Line("Successfully scraped", url.netloc, 0),
           Line("Title", IF IsNone(result.title) THEN "None" ELSE Val(result.title), 0)>>
         \o (IF result.content_length # 0
             THEN <<Line("Content", "", result.content_length)>> ELSE <<>>)
         \o (IF result.links_count # 0
             THEN <<Line("Links found", "", result.links_count)>> ELSE <<>>)
         \o (IF ~IsNone(result.ai_summary) /\ b.ai_available
             THEN <<Line("AI Summary", Val(result.ai_summary), 0)>> ELSE <<>>)
         \o (IF ~IsNone(result.ai_analysis)
             THEN <<Line("Content Type", Val(result.ai_analysis).content_type, 0)>>
             ELSE <<>>)
    ELSE <<Line("Failed to scrape", url.netloc, 0)>>

\* session_stats after one scrape (lines 232-237)
StatsAfter(stats, result) ==
    [pages_scraped          |-> stats.pages_scraped + 1,
     total_links_found      |-> stats.total_links_found + result.links_count,
     total_content_analyzed |-> stats.total_content_analyzed + result.content_length]

\* the row save_scraped_page writes (database_service.py:58-68)
PageRow(sid, result) ==
    [session_id |-> sid, url |-> result.url, has_ai |-> ~IsNone(result.ai_analysis)]

Join(sections, lines) ==
    IF sections = <<>> THEN lines ELSE sections \o <<BlankLine>> \o lines

\* scrape_with_summary raised instead of returning a page
PageRaises ==
    [error |-> TRUE, title |-> None, has_text |-> FALSE, text_len |-> 0,
     words |-> 0, ctype |-> "raised", links |-> 0]

\* an iteration in which a failed save ends the scrape of the URL with an error
\* line, against which C20 is measured
ScrapeOne_SaveFailureSurfaces(st, url, w) ==
    IF ~is_valid_url(url)
    THEN [st EXCEPT !.reply = Join(@, <<Line("Invalid URL", url.path, 0)>>)]
    ELSE IF w.page = PageRaises \/ w.db = "raise"
    THEN [st EXCEPT !.reply = Join(@, <<Line("Error scraping", url.netloc, 0)>>)]
    ELSE LET result == scrape_with_summary(st.bot, url, w)
             domain == extract_domain(url)
         IN  [bot   |-> [st.bot EXCEPT
                           !.scraped_data = DictSet(@, domain, result),
                           !.session_stats = StatsAfter(@, result)],
              db    |-> Append(st.db, PageRow(st.bot.session_id, result)),
              log   |-> Append(st.log, [domain |-> domain, result |-> result,
                                        calls |-> ProviderCalls(st.bot, w)]),
              reply |-> Join(st.reply, ScrapeSection(st.bot, url, result))]

\* one iteration of the loop over the URLs (lines 203-263)
ScrapeOne(st, url, w) ==
    IF ~is_valid_url(url)
    THEN [st EXCEPT !.reply = Join(@, <<Line("Invalid URL", url.path, 0)>>)]
    ELSE IF w.page = PageRaises
    THEN [st EXCEPT !.reply = Join(@, <<Line("Error scraping", url.netloc, 0)>>)]
    ELSE LET result == scrape_with_summary(st.bot, url, w)
             domain == extract_domain(url)
         IN  [bot   |-> [st.bot EXCEPT
                           !.scraped_data = DictSet(@, domain, result),
                           !.session_stats = StatsAfter(@, result)],
              db    |-> IF w.db = "ok"
                        THEN Append(st.db, PageRow(st.bot.session_id, result))
                        ELSE st.db,
              log   |-> Append(st.log, [domain |-> domain, result |-> result,
                                        calls |-> ProviderCalls(st.bot, w)]),
              reply |-> Join(st.reply, ScrapeSection(st.bot, url, result))]

\* a loop that ends at the first invalid URL, against which C19 is measured
RECURSIVE ScrapeLoop_StopAtInvalid(_, _, _, _)
ScrapeLoop_StopAtInvalid(st, urls, worlds, i) ==
    IF i > Len(urls) THEN st
    ELSE IF ~is_valid_url(urls[i]) THEN ScrapeOne(st, urls[i], worlds[i])
    ELSE ScrapeLoop_StopAtInvalid(ScrapeOne(st, urls[i], worlds[i]), urls, worlds, i + 1)

RECURSIVE ScrapeLoop(_, _, _, _)
ScrapeLoop(st, urls, worlds, i) ==
    IF i > Len(urls) THEN st
    ELSE ScrapeLoop(ScrapeOne(st, urls[i], worlds[i]), urls, worlds, i + 1)

\* _handle_scrape_request: the state after the call and its reply
handle_scrape_request(b, db, log, intent, worlds) ==
    LET st0 == [bot |-> b, db |-> db, log |-> log, reply |-> <<>>]
    IN  IF intent.urls = <<>>
        THEN [st0 EXCEPT !.reply = NoUrlReply]
        ELSE ScrapeLoop(st0, intent.urls, worlds, 1)

\* list(self.scraped_data.keys())[-1]
LatestDomain(b) == b.scraped_data[Len(b.scraped_data)].k
LatestData(b) == b.scraped_data[Len(b.scraped_data)].v

ScrapeFirstAnalysis ==
    <<Line("I haven't scraped any websites yet. Please scrape a website first, then I can analyze the content.", "", 0)>>
ScrapeFirstShow ==
    <<Line("I haven't scraped any websites yet. Please scrape a website first.", "", 0)>>

\* lines 295-306: the insights are read as a dict of strings and a list
InsightsRaise(b, data) ==
    /\ ~IsNone(data.ai_analysis)
    /\ ~IsNone(Val(data.ai_analysis).ai_insights)
    /\ b.ai_available
    /\ LET insights == Val(Val(data.ai_analysis).ai_insights)
       IN  \/ insights.jt # "object"
           \/ (insights.sentiment # "" /\ ~insights.sentiment_is_str)

InsightLines(b, data) ==
    IF IsNone(data.ai_analysis) THEN <<>>
    ELSE LET a == Val(data.ai_analysis)
         IN  <<Line("Content Type", a.content_type, 0)>>
             \o (IF a.word_count # 0
                 THEN <<Line("Word Count", "", a.word_count),
                        Line("Estimated Reading Time", "", a.estimated_reading_time)>>
                 ELSE <<>>)
             \o (IF ~IsNone(a.ai_insights) /\ b.ai_available
                 THEN LET insights == Val(a.ai_insights)
                      IN  (IF insights.sentiment # ""
                           THEN <<Line("Sentiment", insights.sentiment, 0)>> ELSE <<>>)
                          \o (IF insights.key_topics # <<>>
                              THEN <<Line("Key Topics", insights.key_topics[1], 0)>>
                              ELSE <<>>)
                          \o (IF insights.language_quality # ""
                              THEN <<Line("Language Quality", insights.language_quality, 0)>>
                              ELSE <<>>)
                 ELSE <<>>)

\* lines 311-313: data['ai_analysis'].get('ai_insights', {}).get('sentiment', ...)
ToneRaises(b, data, params) ==
    /\ params.analyze_sentiment /\ ~IsNone(data.ai_summary) /\ b.ai_available
    /\ ~IsNone(Val(data.ai_analysis).ai_insights)
    /\ Val(Val(data.ai_analysis).ai_insights).jt # "object"

ToneLines(b, data, params) ==
    (IF params.analyze_sentiment /\ ~IsNone(data.ai_summary)
     THEN (IF b.ai_available
           THEN <<Line("The content appears to have a tone",
                       Val(Val(data.ai_analysis).ai_insights).sentiment, 0)>>
           ELSE <<Line("For sentiment analysis, please provide an API key", "", 0)>>)
     ELSE <<>>)
    \o (IF params.generate_summary /\ ~IsNone(data.ai_summary)
        THEN <<Line("Summary", Val(data.ai_summary), 0)>> ELSE <<>>)

\* a handler without the test of line 269, which indexes the empty list of
\* keys, against which C24 is measured
handle_analysis_request_NoGuard(b, intent) ==
    IF b.scraped_data = <<>> THEN Raised("IndexError")
    ELSE Returned(<<Line("Analysis of", LatestDomain(b), 0)>>)

\* _handle_analysis_request (lines 267-320)
handle_analysis_request(b, intent) ==
    IF b.scraped_data = <<>> THEN Returned(ScrapeFirstAnalysis)
    ELSE LET domain == LatestDomain(b)
             data == LatestData(b)
         IN  IF ~data.scraping_successful
             THEN Returned(<<Line("The last scraping attempt for the domain was unsuccessful",
                                  domain, 0)>>)
             ELSE IF InsightsRaise(b, data) \/ ToneRaises(b, data, intent.parameters)
             THEN Raised("AttributeError")
             ELSE Returned(<<Line("Analysis of", domain, 0)>>
                           \o InsightLines(b, data)
                           \o ToneLines(b, data, intent.parameters))

\* _handle_show_data_request (lines 322-358); data.get('ai_analysis', {}) is the
\* stored None when no AI analysis ran, and None has no get
handle_show_data_request(b, intent) ==
    IF b.scraped_data = <<>> THEN Returned(ScrapeFirstShow)
    ELSE LET domain == LatestDomain(b)
             data == LatestData(b)
             params == intent.parameters
             parts ==
                (IF params.show_links
                 THEN <<Line("Found links on", domain, data.links_count)>>
                      \o (IF data.links_count > 0
                          THEN <<Line("The links include navigation", "", 0)>> ELSE <<>>)
                 ELSE <<>>)
                \o (IF params.show_images
                    THEN <<Line("Image analysis available", "", 0)>> ELSE <<>>)
         IN  IF ~data.scraping_successful
             THEN Returned(<<Line("The last scraping attempt was unsuccessful", "", 0)>>)
             ELSE IF parts # <<>> THEN Returned(parts)
             ELSE IF IsNone(data.ai_analysis) THEN Raised("AttributeError")
             ELSE Returned(<<Line("Data from", domain, 0),
                             Line("Title", IF IsNone(data.title) THEN "None"
                                           ELSE Val(data.title), 0),
                             Line("Content", "", data.content_length),
                             Line("Links", "", data.links_count),
                             Line("Type", Val(data.ai_analysis).content_type, 0)>>)

HelpText == <<Line("Web Scraping Assistant - Available Commands", "", 0)>>

\* _handle_stats_request (lines 395-413); the duration line is left out
handle_stats_request(b) ==
    Returned(<<Line("Session Statistics", "", 0),
               Line("Pages scraped", "", b.session_stats.pages_scraped),
               Line("Total links found", "", b.session_stats.total_links_found),
               Line("Content analyzed", "", b.session_stats.total_content_analyzed),
               Line("AI features", IF b.ai_available THEN "Available"
                                   ELSE "Requires API key", 0)>>
             \o (IF b.scraped_data # <<>>
                 THEN <<Line("Websites in memory", "", Len(b.scraped_data))>>
                 ELSE <<>>))

\* _generate_fallback_response (lines 473-487)
generate_fallback_response(message) ==
    IF Contains(message, {"hello", "hi", "hey"})
    THEN <<Line("Hello! I'm your web scraping assistant.", "", 0)>>
    ELSE IF Contains(message, {"thank", "thanks"})
    THEN <<Line("You're welcome!", "", 0)>>
    ELSE IF Contains(message, {"what"}) /\ Contains(message, {"can you", "do you"})
    THEN <<Line("I can scrape websites, extract content, analyze text", "", 0)>>
    ELSE <<Line("I'm not sure about that", "", 0)>>

\* _generate_conversational_response (lines 415-456)
generate_conversational_response(b, message, chat) ==
    IF b.response_provider = "none" THEN Returned(generate_fallback_response(message))
    ELSE IF chat = "raise" THEN Returned(generate_fallback_response(message))
    ELSE IF chat = "empty" THEN Returned(<<Line("I'm here to help with web scraping!", "", 0)>>)
    ELSE Returned(<<Line("provider reply", b.response_provider, 0)>>)

Turn(role, content) == [role |-> role, content |-> content]

\* process_message (lines 113-147): the engine, the store, the log and the
\* outcome after the call; a handler that raises leaves the user turn alone
process_message(b, db, log, message, worlds, chat) ==
    LET b1 == [b EXCEPT !.conversation_history =
                           Append(@, Turn("user", <<Line(message.text, "", 0)>>))]
        intent == analyze_intent(message)
        scraped == handle_scrape_request(b1, db, log, intent, worlds)
        out == CASE intent.action = "scrape" -> Returned(scraped.reply)
                 [] intent.action = "analyze" -> handle_analysis_request(b1, intent)
                 [] intent.action = "show_data" -> handle_show_data_request(b1, intent)
                 [] intent.action = "help" -> Returned(HelpText)
                 [] intent.action = "stats" -> handle_stats_request(b1)
                 [] OTHER -> generate_conversational_response(b1, message, chat)
        b2 == IF intent.action = "scrape" THEN scraped.bot ELSE b1
    IN  [bot |-> IF out.raised THEN b2
                 ELSE [b2 EXCEPT !.conversation_history =
                                    Append(@, Turn("assistant", out.text))],
         db  |-> IF intent.action = "scrape" THEN scraped.db ELSE db,
         log |-> IF intent.action = "scrape" THEN scraped.log ELSE log,
         out |-> out]

(***************************************************************************)
(* Inputs                                                                  *)
(***************************************************************************)
MScrapeA1   == Message("Scrape https://a.test/1", {"scrape"}, <<UA1>>)
MFetchA2    == Message("fetch http://a.test/2", {"fetch"}, <<UA2>>)
MScrapeB    == Message("scrape https://b.test/", {"scrape"}, <<UB>>)
MScrapeBadB == Message("scrape https:///x https://b.test/", {"scrape"}, <<UBad, UB>>)
MScrapeBare == Message("Scrape a.test", {"scrape"}, <<UBare>>)
MScrapeNone == Message("scrape something", {"scrape"}, <<>>)
MAnalyze    == Message("analyze the content", {"analyze"}, <<>>)
MSentiment  == Message("sentiment and summary please", {"sentiment", "summary"}, <<>>)
MShowData   == Message("show data", {"show", "data"}, <<>>)
MShowLinks  == Message("show me the links", {"show", "links"}, <<>>)
MHelp       == Message("help", {"help"}, <<>>)
MStats      == Message("stats", {"stats"}, <<>>)
MHello      == Message("hello", {"hello"}, <<>>)
MOther      == Message("tell me a joke", {}, <<>>)

ScrapeMessages == {MScrapeA1, MFetchA2, MScrapeBadB, MScrapeBare, MScrapeNone}
QueryMessages  == {MAnalyze, MSentiment, MShowData, MShowLinks, MHelp, MStats}
ChatMessages   == {MHello, MOther}
Pages          == {PageFailed, PageShort, PageLong}
DbOutcomes     == {"ok", "raise"}

DeepScrapeMessages == {MScrapeA1, MScrapeB}
DeepQueryMessages  == {MAnalyze, MShowLinks}
DeepPages          == {PageFailed, PageEmpty, PageLong}

\* json_object mode makes the OpenAI reply an object; Anthropic replies free text
InsightReplies(b) ==
    IF b.openai_available THEN {"ok", "bad_field", "raise"}
    ELSE {"ok", "array", "raise"}

NoWorld == World(PageFailed, "none", "raise")

WorldsFor(b, pages, dbs, replies) ==
    { World(p, i, d) : p \in pages, i \in replies \cup {"none"}, d \in dbs }

\* the worlds one scrape of url can meet: a provider answers only when asked
WorldFits(b, url, w, pages, dbs, replies) ==
    IF ~is_valid_url(url) THEN w = NoWorld
    ELSE /\ w.page \in pages
         /\ w.db \in dbs
         /\ IF w.page.has_text /\ AiConfigured(b)
            THEN w.insights \in replies
            ELSE w.insights = "none"

Environs ==
    { [provider |-> "openai",    openai_key |-> TRUE,  anthropic_key |-> FALSE],
      [provider |-> "anthropic", openai_key |-> FALSE, anthropic_key |-> TRUE],
      [provider |-> "anthropic", openai_key |-> TRUE,  anthropic_key |-> FALSE],
      [provider |-> "gemini",    openai_key |-> FALSE, anthropic_key |-> FALSE] }

\* str(uuid.uuid4()): the n-th value drawn, never drawn before
uuid4(n) == n
EngineSid == uuid4(0)
NoRet == [text |-> "", action |-> "none", raised |-> FALSE, reply |-> <<>>]
NoAi == [ai_provider |-> "none", ai_client |-> FALSE]
NoRun == [pc |-> "idle", page |-> PageFailed, calls |-> <<>>, replies |-> <<>>,
          aborted |-> FALSE]

(***************************************************************************)
(* The session engine on its own: Spec                                     *)
(***************************************************************************)
NoHttp == [n |-> 0, route |-> "", client |-> "", provider |-> "", status |-> 0,
           body |-> <<>>]

HostIdle ==
    /\ flask_session = <<>>
    /\ chatbot_instances = <<>>
    /\ engines = <<>>
    /\ http = NoHttp
    /\ uuids = 1

InitEngine(envs) ==
    /\ \E e \in envs :
          /\ environ = [openai_key |-> e.openai_key, anthropic_key |-> e.anthropic_key]
          /\ bot = WebScrapingChatbot_init(e.provider, environ, EngineSid)
    /\ db_pages = <<>>
    /\ ret = NoRet
    /\ scrape_log = <<>>
    /\ ai = NoAi
    /\ run = NoRun
    /\ HostIdle
    /\ web = None
    /\ classified = None
    /\ threads = <<>>

Calls(b) == Cardinality({i \in 1..Len(b.conversation_history) :
                            b.conversation_history[i].role = "user"})

\* a call that counts every message as a page, against which C21 is measured
Handle_CountsEveryCall(message, worlds, chat) ==
    LET r == process_message(bot, db_pages, scrape_log, message, worlds, chat)
    IN  /\ bot' = [r.bot EXCEPT !.session_stats.pages_scraped = @ + 1]
        /\ db_pages' = r.db
        /\ scrape_log' = r.log
        /\ ret' = [text |-> message.text, action |-> IntentAction(message),
                   raised |-> r.out.raised, reply |-> r.out.text]
        /\ UNCHANGED <<environ, ai, run, flask_session, chatbot_instances, engines,
                       http, uuids, web, classified, threads>>

\* one process_message call on the engine
Handle(message, worlds, chat) ==
    LET r == process_message(bot, db_pages, scrape_log, message, worlds, chat)
    IN  /\ bot' = r.bot
        /\ db_pages' = r.db
        /\ scrape_log' = r.log
        /\ ret' = [text |-> message.text, action |-> IntentAction(message),
                   raised |-> r.out.raised, reply |-> r.out.text]
        /\ UNCHANGED <<environ, ai, run, flask_session, chatbot_instances, engines,
                       http, uuids, web, classified, threads>>

ScrapeRequest(messages, pages, dbs, max) ==
    /\ Calls(bot) < max
    /\ \E m \in messages :
          LET urls == FindUrls(m)
              replies == InsightReplies(bot)
          IN  \E worlds \in [1..Len(urls) -> WorldsFor(bot, pages, dbs, replies) \cup {NoWorld}] :
                 /\ \A i \in 1..Len(urls) :
                       WorldFits(bot, urls[i], worlds[i], pages, dbs, replies)
                 /\ Handle(m, worlds, "none")

QueryRequest(messages, max) ==
    /\ Calls(bot) < max
    /\ \E m \in messages : Handle(m, <<>>, "none")

ChatRequest(messages, max) ==
    /\ Calls(bot) < max
    /\ \E m \in messages :
          \E chat \in IF bot.response_provider = "none" THEN {"none"}
                      ELSE {"reply", "raise"} :
             Handle(m, <<>>, chat)

Init == InitEngine(Environs)

Next ==
    \/ ScrapeRequest(ScrapeMessages, Pages, DbOutcomes, MaxCalls)
    \/ QueryRequest(QueryMessages, MaxCalls)
    \/ ChatRequest(ChatMessages, MaxCalls)

Spec == Init /\ [][Next]_vars

(***************************************************************************)
(* The same engine, fewer inputs, longer sessions: SpecDeep                *)
(***************************************************************************)
DeepEnvirons ==
    { [provider |-> "openai", openai_key |-> TRUE, anthropic_key |-> FALSE] }

InitDeep == InitEngine(DeepEnvirons)

NextDeep ==
    \/ ScrapeRequest(DeepScrapeMessages, DeepPages, {"ok"}, MaxDeepCalls)
    \/ QueryRequest(DeepQueryMessages, MaxDeepCalls)

SpecDeep == InitDeep /\ [][NextDeep]_vars

(***************************************************************************)
(* AIEnhancedScraper (ai_enhanced_scraper.py).  Numbers are hundredths:    *)
(* 1.0 is 100.  A provider reply is named by what it holds.                *)
(***************************************************************************)
\* a constructor that takes whichever key is set, against which C11 is measured
AIEnhancedScraper_init_AnyKey(provider, env) ==
    [ai_provider |-> provider, ai_client |-> env.openai_key \/ env.anthropic_key]
\* _initialize_ai_client (lines 57-86)
AIEnhancedScraper_init(provider, env) ==
    [ai_provider |-> provider,
     ai_client   |-> \/ (provider = "openai" /\ env.openai_key)
                     \/ (provider = "anthropic" /\ env.anthropic_key)]

Categories ==
    {"News & Current Events", "Technology & Science", "Business & Finance",
     "Entertainment & Media", "Sports", "Health & Medical", "Education",
     "Travel & Lifestyle", "Politics & Government", "E-commerce & Shopping",
     "Blog & Personal", "Reference & Documentation", "Other"}

Num(n) == [jt |-> "number", n |-> n, t |-> ""]
Text(t) == [jt |-> "string", n |-> 0, t |-> t]
Obj(score, confidence) == [jt |-> "object", score |-> score, confidence |-> confidence]
NotAnObject == [jt |-> "array", score |-> None, confidence |-> None]
Neutral == Obj(Some(Num(0)), Some(Num(0)))
CanonicalKeys == {"people", "places", "organizations", "other"}
Entities(jt, keys) == [jt |-> jt, keys |-> keys]

\* every method returns its default without a request when there is no client
\* or no text (lines 99, 154, 206, 263, 314, 364)
Skips(a, page) == ~a.ai_client \/ ~page.has_text

\* summarize_content (lines 88-142)
summarize_content(a, page, reply) ==
    IF Skips(a, page) THEN ""
    ELSE IF reply = "text" THEN "summary text"
    ELSE ""

\* analyze_sentiment (lines 144-193): json.loads of the reply, whatever it is
analyze_sentiment(a, page, reply) ==
    IF Skips(a, page) THEN Neutral
    ELSE CASE reply = "in_range"     -> Obj(Some(Num(50)), Some(Num(90)))
           [] reply = "out_of_range" -> Obj(Some(Num(250)), Some(Num(150)))
           [] reply = "not_numbers"  -> Obj(Some(Text("positive")), Some(Text("high")))
           [] reply = "no_keys"      -> Obj(None, None)
           [] reply = "array"        -> NotAnObject
           [] OTHER                  -> Neutral

\* categorize_content (lines 195-251): the reply text, stripped
categorize_content(a, page, reply) ==
    IF Skips(a, page) THEN "Unknown"
    ELSE CASE reply = "listed"   -> "Technology & Science"
           [] reply = "unlisted" -> "Cooking, probably"
           [] OTHER              -> "Unknown"

\* extract_entities (lines 253-302): json.loads of the reply, whatever it is
extract_entities(a, page, reply) ==
    IF Skips(a, page) THEN Entities("object", CanonicalKeys)
    ELSE CASE reply = "all_keys"  -> Entities("object", CanonicalKeys)
           [] reply = "some_keys" -> Entities("object", {"people"})
           [] reply = "array"     -> Entities("array", {})
           [] OTHER               -> Entities("object", CanonicalKeys)

\* detect_language (lines 304-352)
detect_language(a, page, reply) ==
    IF Skips(a, page) THEN "unknown"
    ELSE IF reply = "name" THEN "English"
    ELSE "unknown"

\* analyze_content_quality (lines 354-402): float() of the reply text
analyze_content_quality(a, page, reply) ==
    IF Skips(a, page) THEN 0
    ELSE CASE reply = "0.8"  -> 80
           [] reply = "7"    -> 700
           [] reply = "-0.5" -> -50
           [] OTHER          -> 0

EmptyAnalysis ==
    [summary |-> None, sentiment_score |-> None, sentiment_confidence |-> None,
     key_topics |-> None, content_category |-> None, extracted_entities |-> None,
     language_detected |-> None, readability_score |-> None]

\* a guard that does not look at the text, against which C10 is measured
ReturnsEmpty_ErrorOnly(a, page) == page.error \/ ~a.ai_client
\* line 422: no analysis for a failed scrape, without a client, without text
ReturnsEmpty(a, page) == page.error \/ ~a.ai_client \/ ~page.has_text

Steps == <<"summarize", "sentiment", "categorize", "entities", "language", "quality">>
StepAfter(step) ==
    CASE step = "summarize"  -> "sentiment"
      [] step = "sentiment"  -> "categorize"
      [] step = "categorize" -> "entities"
      [] step = "entities"   -> "language"
      [] step = "language"   -> "quality"
      [] OTHER               -> "done"

\* a request goes out unless the method returned its default first
Asked(a, page, step) == IF Skips(a, page) THEN <<>> ELSE <<step>>

Replies(a, step) ==
    CASE step = "summarize"  -> {"text", "raise"}
      [] step = "sentiment"  ->
            IF a.ai_provider = "openai"
            THEN {"in_range", "out_of_range", "no_keys", "raise"}
            ELSE {"in_range", "not_numbers", "array", "garbled", "raise"}
      [] step = "categorize" -> {"listed", "unlisted", "raise"}
      [] step = "entities"   ->
            IF a.ai_provider = "openai"
            THEN {"all_keys", "some_keys", "raise"}
            ELSE {"all_keys", "array", "garbled"}
      [] step = "language"   -> {"name", "raise"}
      [] OTHER               -> {"0.8", "7", "-0.5", "abc", "raise"}

\* sentiment_data.get on line 432 raises unless sentiment_data is a dict; the
\* except of line 446 then ends the analysis
SentimentGetRaises(data) == data.jt # "object"

Get(field) == IF IsNone(field) THEN Num(0) ELSE Val(field)

(***************************************************************************)
(* scrape_with_ai_analysis, one provider request at a time: SpecAI         *)
(***************************************************************************)
AiPages == {PageFailed, PageEmpty, PageLong}

InitAI ==
    /\ \E e \in Environs :
          /\ environ = [openai_key |-> e.openai_key, anthropic_key |-> e.anthropic_key]
          /\ ai = AIEnhancedScraper_init(e.provider, environ)
    /\ run = NoRun
    /\ bot = WebScrapingChatbot_init("openai", [openai_key |-> FALSE,
                                                anthropic_key |-> FALSE], EngineSid)
    /\ db_pages = <<>>
    /\ ret = NoRet
    /\ scrape_log = <<>>
    /\ HostIdle
    /\ web = None
    /\ classified = None
    /\ threads = <<>>

AiFrame == UNCHANGED <<environ, bot, db_pages, ret, scrape_log, ai, flask_session,
                       chatbot_instances, engines, http, uuids, web, classified,
                       threads>>

\* lines 415-423: scrape, then return the empty analysis or start the steps
AnalyzeStart ==
    /\ run.pc \in {"idle", "done"}
    /\ \E page \in AiPages :
          run' = [pc      |-> IF ReturnsEmpty(ai, page) THEN "done" ELSE "summarize",
                  page    |-> page,
                  result  |-> EmptyAnalysis,
                  calls   |-> <<>>,
                  replies |-> <<>>,
                  aborted |-> FALSE]
    /\ AiFrame

StepDone(step, reply, result, aborted) ==
    run' = [run EXCEPT !.pc = IF aborted THEN "done" ELSE StepAfter(step),
                       !.result = result,
                       !.calls = @ \o Asked(ai, run.page, step),
                       !.replies = Append(@, reply),
                       !.aborted = aborted]

\* line 429
Summarize ==
    /\ run.pc = "summarize"
    /\ \E reply \in Replies(ai, "summarize") :
          StepDone("summarize", reply,
                   [run.result EXCEPT !.summary =
                        Some(summarize_content(ai, run.page, reply))], FALSE)
    /\ AiFrame

\* lines 431-433
Sentiment ==
    /\ run.pc = "sentiment"
    /\ \E reply \in Replies(ai, "sentiment") :
          LET data == analyze_sentiment(ai, run.page, reply)
          IN  IF SentimentGetRaises(data)
              THEN StepDone("sentiment", reply, run.result, TRUE)
              ELSE StepDone("sentiment", reply,
                            [run.result EXCEPT
                               !.sentiment_score = Some(Get(data.score)),
                               !.sentiment_confidence = Some(Get(data.confidence))],
                            FALSE)
    /\ AiFrame

\* lines 435-438
Categorize ==
    /\ run.pc = "categorize"
    /\ \E reply \in Replies(ai, "categorize") :
          StepDone("categorize", reply,
                   [run.result EXCEPT !.content_category =
                        Some(categorize_content(ai, run.page, reply))], FALSE)
    /\ AiFrame

\* line 440
ExtractEntities ==
    /\ run.pc = "entities"
    /\ \E reply \in Replies(ai, "entities") :
          StepDone("entities", reply,
                   [run.result EXCEPT !.extracted_entities =
                        Some(extract_entities(ai, run.page, reply))], FALSE)
    /\ AiFrame

\* line 441
DetectLanguage ==
    /\ run.pc = "language"
    /\ \E reply \in Replies(ai, "language") :
          StepDone("language", reply,
                   [run.result EXCEPT !.language_detected =
                        Some(detect_language(ai, run.page, reply))], FALSE)
    /\ AiFrame

\* line 442
ScoreQuality ==
    /\ run.pc = "quality"
    /\ \E reply \in Replies(ai, "quality") :
          StepDone("quality", reply,
                   [run.result EXCEPT !.readability_score =
                        Some(analyze_content_quality(ai, run.page, reply))], FALSE)
    /\ AiFrame

NextAI ==
    \/ AnalyzeStart
    \/ Summarize
    \/ Sentiment
    \/ Categorize
    \/ ExtractEntities
    \/ DetectLanguage
    \/ ScoreQuality

SpecAI == InitAI /\ [][NextAI]_vars

(***************************************************************************)
(* The hosting layer (web_ui.py): SpecHost                                 *)
(***************************************************************************)
MaxRequests == 5

Clients == {"c1", "c2"}
HostProviders == {"openai", "gemini"}
HostMessages == {MHelp, MScrapeA1}
EmptyMessage == Message("", {}, <<>>)

\* the keys of chatbot_instances: session_id alone (get_chatbot, clear_session)
\* and f"{session_id}_{ai_provider}" (chat)
BareKey(sid) == [sid |-> sid, rest |-> ""]
SessionKey(sid, provider) == [sid |-> sid, rest |-> provider]
\* a sweep that takes the keys of every session
StartsWith_AnyKey(k, sid) == TRUE

\* k.startswith(session_id), the ids being uuid strings of one length
StartsWith(k, sid) == k.sid = sid

\* clear_session looks the engine up under the session id alone (line 107)
ClearKey(d, sid) == BareKey(sid)

\* chatbot.py:34 passes ai_provider= to SimpleAIEnhancedScraper.__init__,
\* which takes delay alone (ai_integration_guide.py:19): the construction
\* raises TypeError.  The engine's operations are those of an engine whose
\* construction went through, so both outcomes are kept.
ConstructorOutcomes == {"TypeError", "constructed"}

DictDel(d, k) == SelectSeq(d, LAMBDA e : e.k # k)

InitHost ==
    /\ environ = [openai_key |-> TRUE, anthropic_key |-> FALSE]
    /\ flask_session = [c \in Clients |-> None]
    /\ chatbot_instances = <<>>
    /\ engines = <<>>
    /\ http = NoHttp
    /\ uuids = 1
    /\ bot = WebScrapingChatbot_init("openai", [openai_key |-> FALSE,
                                                anthropic_key |-> FALSE], EngineSid)
    /\ db_pages = <<>>
    /\ ret = NoRet
    /\ scrape_log = <<>>
    /\ ai = NoAi
    /\ run = NoRun
    /\ web = None
    /\ classified = None
    /\ threads = <<>>

Respond(route, client, provider, status, body) ==
    http' = [n |-> http.n + 1, route |-> route, client |-> client,
             provider |-> provider, status |-> status, body |-> body]

\* index and scraper_interface (lines 46-61): a session id for a new browser
Index(c) ==
    /\ http.n < MaxRequests
    /\ flask_session' = IF IsNone(flask_session[c])
                        THEN [flask_session EXCEPT ![c] = Some(uuid4(uuids))]
                        ELSE flask_session
    /\ uuids' = IF IsNone(flask_session[c]) THEN uuids + 1 ELSE uuids
    /\ Respond("index", c, "", 200, <<>>)
    /\ UNCHANGED <<environ, bot, db_pages, ret, scrape_log, ai, run,
                   chatbot_instances, engines, web, classified, threads>>

\* the registry and the engines once the old instances of the session are
\* closed and deleted (lines 83-86)
CloseOld(sid) ==
    LET old == {i \in 1..Len(chatbot_instances) :
                   StartsWith(chatbot_instances[i].k, sid)}
        ids == {chatbot_instances[i].v : i \in old}
    IN  [registry |-> SelectSeq(chatbot_instances,
                                LAMBDA e : ~StartsWith(e.k, sid)),
         engines  |-> [i \in 1..Len(engines) |->
                          IF i \in ids THEN [engines[i] EXCEPT !.closed = TRUE]
                          ELSE engines[i]]]

\* chat (lines 64-99)
Chat(c, message, provider, outcome, worlds, reply) ==
    /\ http.n < MaxRequests
    /\ IF message = EmptyMessage
       THEN /\ Respond("chat", c, provider, 400, <<Line("Empty message", "", 0)>>)
            /\ UNCHANGED <<chatbot_instances, engines, db_pages, scrape_log, ret, uuids>>
       ELSE IF IsNone(flask_session[c])
       THEN /\ Respond("chat", c, provider, 400, <<Line("No session", "", 0)>>)
            /\ UNCHANGED <<chatbot_instances, engines, db_pages, scrape_log, ret, uuids>>
       ELSE LET sid == Val(flask_session[c])
                key == SessionKey(sid, provider)
                known == DictHas(chatbot_instances, key)
                swept == CloseOld(sid)
            IN  IF ~known /\ outcome = "TypeError"
                THEN /\ chatbot_instances' = swept.registry
                     /\ engines' = swept.engines
                     /\ Respond("chat", c, provider, 500, <<Line("TypeError", "", 0)>>)
                     /\ UNCHANGED <<db_pages, scrape_log, ret, uuids>>
                ELSE LET made == [bot |-> WebScrapingChatbot_init(provider, environ,
                                                                  uuid4(uuids)),
                                  closed |-> FALSE,
                                  \* WebScraper.last_request_time (web_scraper.py:89),
                                  \* stamped by _rate_limit with the time of the
                                  \* request, counted in requests
                                  last_request_time |-> 0]
                         heap == IF known THEN engines ELSE Append(swept.engines, made)
                         registry == IF known THEN chatbot_instances
                                     ELSE DictSet(swept.registry, key, Len(heap))
                         id == DictGet(registry, key)
                         r == process_message(heap[id].bot, db_pages, scrape_log,
                                              message, worlds, reply)
                     IN  /\ chatbot_instances' = registry
                         /\ engines' = [heap EXCEPT
                                         ![id].bot = r.bot,
                                         ![id].last_request_time =
                                            IF Len(r.log) > Len(scrape_log)
                                            THEN http.n + 1 ELSE @]
                         /\ db_pages' = r.db
                         /\ scrape_log' = r.log
                         /\ uuids' = IF known THEN uuids ELSE uuids + 1
                         /\ ret' = [text |-> message.text,
                                    action |-> IntentAction(message),
                                    raised |-> r.out.raised, reply |-> r.out.text]
                         /\ IF r.out.raised
                            THEN Respond("chat", c, provider, 500, r.out.text)
                            ELSE Respond("chat", c, provider, 200, r.out.text)
    /\ UNCHANGED <<environ, bot, ai, run, flask_session, web, classified, threads>>

ChatRequestOf(c) ==
    \E message \in HostMessages \cup {EmptyMessage}, provider \in HostProviders :
       LET urls == FindUrls(message)
           constructs == /\ message # EmptyMessage
                         /\ ~IsNone(flask_session[c])
                         /\ ~DictHas(chatbot_instances,
                                     SessionKey(Val(flask_session[c]), provider))
       IN  \E outcome \in IF constructs THEN ConstructorOutcomes ELSE {"constructed"} :
              Chat(c, message, provider, outcome,
                   [i \in 1..Len(urls) |-> World(PageLong, "ok", "ok")], "reply")

\* clear_session (lines 102-115)
ClearSession(c) ==
    /\ http.n < MaxRequests
    /\ LET sid == flask_session[c]
           key == ClearKey(chatbot_instances, Val(sid))
       IN  IF ~IsNone(sid) /\ DictHas(chatbot_instances, key)
           THEN /\ engines' = [engines EXCEPT
                                 ![DictGet(chatbot_instances, key)].closed = TRUE]
                /\ chatbot_instances' = DictDel(chatbot_instances, key)
           ELSE UNCHANGED <<chatbot_instances, engines>>
    /\ flask_session' = [flask_session EXCEPT ![c] = None]
    /\ Respond("clear", c, "", 200, <<>>)
    /\ UNCHANGED <<environ, bot, db_pages, ret, scrape_log, ai, run, uuids,
                   web, classified, threads>>

NextHost ==
    \E c \in Clients :
       \/ Index(c)
       \/ ChatRequestOf(c)
       \/ ClearSession(c)

SpecHost == InitHost /\ [][NextHost]_vars

(***************************************************************************)
(* Claims about the session engine                                         *)
(***************************************************************************)
LastScrape == scrape_log[Len(scrape_log)]
DomainTags == {"Analysis of", "Found links on", "Data from",
               "The last scraping attempt for the domain was unsuccessful"}
ReportsOnDomain ==
    /\ ret.action \in {"analyze", "show_data"}
    /\ ~ret.raised
    /\ ret.reply[1].tag \in DomainTags

\* C1: an analyze or show_data request reports on the domain of the most
\* recent scrape, also after scrape(A), scrape(B), scrape(A).
C1_ReportsMostRecentScrape ==
    (scrape_log # <<>> /\ ReportsOnDomain) => ret.reply[1].s = LastScrape.domain

\* C1, the case where nothing is re-scraped: the report names the last scrape
C1_W_ReportAfterScrapes ==
    /\ Len(scrape_log) >= 2 /\ ReportsOnDomain
    /\ ret.reply[1].s = LastScrape.domain

SuccessfulScrapes ==
    Cardinality({i \in 1..Len(scrape_log) : scrape_log[i].result.scraping_successful})

\* C2: counters and cache reflect only successful scrapes: a scrape whose
\* fetch failed neither counts in pages_scraped nor is stored in the cache.
C2_OnlySuccessfulScrapesCount ==
    /\ bot.session_stats.pages_scraped = SuccessfulScrapes
    /\ \A i \in 1..Len(bot.scraped_data) : bot.scraped_data[i].v.scraping_successful

\* C6: after n process_message calls the history holds 2n turns, user and
\* assistant alternating, the user turn of each call first.
C6_TwoTurnsPerCall ==
    LET h == bot.conversation_history
    IN  /\ Len(h) = 2 * Calls(bot)
        /\ \A i \in 1..Len(h) :
              h[i].role = IF i % 2 = 1 THEN "user" ELSE "assistant"

\* C6, the calls that return: the last two turns are the message, then the reply
C6_W_ReturnedCallAppendedBoth ==
    LET h == bot.conversation_history
    IN  /\ ret.action # "none" /\ ~ret.raised /\ Len(h) >= 4
        /\ h[Len(h) - 1] = Turn("user", <<Line(ret.text, "", 0)>>)
        /\ h[Len(h)] = Turn("assistant", ret.reply)

LastResultFor(domain) ==
    LET last == CHOOSE i \in 1..Len(scrape_log) :
                   /\ scrape_log[i].domain = domain
                   /\ \A j \in (i + 1)..Len(scrape_log) : scrape_log[j].domain # domain
    IN  scrape_log[last].result

\* C7: the cache holds exactly one entry per scraped domain, and it is the
\* result of the latest scrape of that domain.
C7_OneEntryPerDomainLastWins ==
    LET d == bot.scraped_data
    IN  /\ \A i, j \in 1..Len(d) : d[i].k = d[j].k => i = j
        /\ \A i \in 1..Len(scrape_log) : DictHas(d, scrape_log[i].domain)
        /\ \A i \in 1..Len(d) :
              /\ \E j \in 1..Len(scrape_log) : scrape_log[j].domain = d[i].k
              /\ d[i].v = LastResultFor(d[i].k)

\* C7: one domain scraped twice with different results, one entry, the second
C7_W_SameDomainTwice ==
    /\ Len(scrape_log) = 2
    /\ scrape_log[1].domain = scrape_log[2].domain
    /\ scrape_log[1].result # scrape_log[2].result
    /\ Len(bot.scraped_data) = 1
    /\ bot.scraped_data[1].v = scrape_log[2].result

\* C8: once the domain cache of an engine is non-empty, no process_message
\* call makes it empty again.
C8_HasDataIsSticky ==
    [][bot.scraped_data # <<>> => bot'.scraped_data # <<>>]_vars

\* C8: a call of another kind, and a failed scrape, on an engine that has data
C8_W_CallOnEngineWithData ==
    /\ Len(scrape_log) >= 2
    /\ ~LastScrape.result.scraping_successful
    /\ bot.scraped_data # <<>>

(***************************************************************************)
(* Claims about the AI analysis                                            *)
(***************************************************************************)
Analysed == run.pc = "done" /\ run.replies # <<>>
SentimentFailed == Len(run.replies) >= 2 /\ run.replies[2] \in {"raise", "garbled", "array"}

\* C3: however the sentiment step fails (provider exception, unparseable
\* reply, parsed reply that is no JSON object), categorize, extract_entities,
\* detect_language and score_quality still run and their fields are set.
C3_SentimentFailureIsIsolated ==
    (Analysed /\ SentimentFailed) =>
        /\ run.calls = Steps
        /\ ~IsNone(run.result.content_category)
        /\ ~IsNone(run.result.extracted_entities)
        /\ ~IsNone(run.result.language_detected)
        /\ ~IsNone(run.result.readability_score)

\* C3, the failures the sentiment method catches itself: the later steps ran
C3_W_CaughtFailureGoesOn ==
    /\ Analysed /\ Len(run.replies) >= 2 /\ run.replies[2] \in {"raise", "garbled"}
    /\ run.calls = Steps
    /\ run.result.sentiment_score = Some(Num(0))
    /\ run.result.content_category = Some("Technology & Science")

InRange(v, lo, hi) == v.jt = "number" /\ lo <= v.n /\ v.n <= hi

\* C9: in every analysis result a set sentiment score lies in [-1,1], a set
\* confidence in [0,1], a set quality score in [0,1], and a set category is
\* one of the fixed list or "Unknown".
C9_RangesHold ==
    run.pc = "done" =>
        LET r == run.result
        IN  /\ ~IsNone(r.sentiment_score) => InRange(Val(r.sentiment_score), -100, 100)
            /\ ~IsNone(r.sentiment_confidence) => InRange(Val(r.sentiment_confidence), 0, 100)
            /\ ~IsNone(r.readability_score) =>
                  (0 <= Val(r.readability_score) /\ Val(r.readability_score) <= 100)
            /\ ~IsNone(r.content_category) =>
                  Val(r.content_category) \in Categories \cup {"Unknown"}

\* C9, a provider that keeps to the prompts: the values are in range
C9_W_WellBehavedProvider ==
    /\ run.pc = "done" /\ run.replies = <<"text", "in_range", "listed", "all_keys", "name", "0.8">>
    /\ run.result.sentiment_score = Some(Num(50))
    /\ run.result.readability_score = Some(80)

\* C10: analyze on a scrape that failed or has no text returns the analysis
\* with every field unset and sends no provider request.
C10_NoAnalysisWithoutContent ==
    (run.pc # "idle" /\ (run.page.error \/ ~run.page.has_text)) =>
        /\ run.pc = "done"
        /\ run.result = EmptyAnalysis
        /\ run.calls = <<>>

\* C10: a configured scraper met a page without text, and one that failed
C10_W_EmptyTextWithClient ==
    /\ ai.ai_client /\ run.pc = "done"
    /\ ~run.page.error /\ ~run.page.has_text
    /\ run.result = EmptyAnalysis

(***************************************************************************)
(* Claims about the hosting layer                                          *)
(***************************************************************************)
Served(route) == http'.n = http.n + 1 /\ http'.route = route
RegisteredFor(registry, sid) ==
    {i \in 1..Len(registry) : StartsWith(registry[i].k, sid)}

\* C4: when a session has an engine that a chat request created, a
\* clear-session request leaves no engine of that session id in the registry
\* and has closed it.
C4_ClearTearsSessionDown ==
    [][(Served("clear") /\ ~IsNone(flask_session[http'.client])) =>
          LET sid == Val(flask_session[http'.client])
          IN  /\ RegisteredFor(chatbot_instances', sid) = {}
              /\ \A i \in RegisteredFor(chatbot_instances, sid) :
                    engines'[chatbot_instances[i].v].closed]_vars

\* C4: a browser that chatted asks to clear its session
C4_W_ClearAfterChat ==
    /\ http.route = "clear"
    /\ \E i \in 1..Len(engines) : engines[i].bot.conversation_history # <<>>

Unconfigured ==
    \/ ai.ai_provider \notin {"openai", "anthropic"}
    \/ (ai.ai_provider = "openai" /\ ~environ.openai_key)
    \/ (ai.ai_provider = "anthropic" /\ ~environ.anthropic_key)

\* C11: an orchestrator constructed with an unknown provider name, or with a
\* known provider whose key is absent, has no client, and every later analyze
\* call returns the all-empty analysis without a provider request.
C11_UnconfiguredIsDisabled ==
    Unconfigured =>
        /\ ~ai.ai_client
        /\ run.pc \in {"idle", "done"}
        /\ run.pc = "done" => (run.result = EmptyAnalysis /\ run.calls = <<>>)

\* C11: analyze of a page with text on an orchestrator whose provider has no
\* key, while another provider's key is set
C11_W_AnalyzeWithoutKey ==
    /\ ai.ai_provider = "anthropic" /\ environ.openai_key /\ ~environ.anthropic_key
    /\ run.pc = "done" /\ run.page = PageLong
    /\ run.result = EmptyAnalysis

(***************************************************************************)
(* WebScraper (web_scraper.py): SpecScraper.  Time is time.time() in       *)
(* ticks.  A call is one step: its robots.txt fetch takes robots_time, its *)
(* sleep the computed time, its GET one tick.                              *)
(***************************************************************************)
Epoch == 10         \* time.time() when the instance is constructed
Horizon == 3        \* calls start before Epoch + Horizon

\* __init__ (lines 65-87)
WebScraper_init(delay, respect_robots) ==
    [delay |-> delay, respect_robots |-> respect_robots, last_request_time |-> 0]

\* a limiter that sleeps and forgets when it let a request through, against
\* which C14 is measured
rate_limit_NoStamp(s, t) ==
    LET since == t - s.last_request_time
    IN  [slept |-> IF since < s.delay THEN s.delay - since ELSE 0, scraper |-> s]
\* _rate_limit entered at time t: the sleep, and the instance stamped after it
rate_limit(s, t) ==
    LET since == t - s.last_request_time
        sleep == IF since < s.delay THEN s.delay - since ELSE 0
    IN  [slept |-> sleep, scraper |-> [s EXCEPT !.last_request_time = t + sleep]]

\* a gate that lets everything through, against which C13 is measured
check_robots_txt_Ignored(s, w) == TRUE
\* _check_robots_txt: w.robots says what happened to the request for robots.txt.
\* "allow" and "disallow" are the answers of can_fetch for a file that was read;
\* "raise" is an exception that leaves RobotFileParser.read or can_fetch (no
\* connection, a timeout, bytes that do not decode) and is caught at line 135.
\* An HTTP error status is raised by urlopen and caught inside read: 404 makes
\* the parser allow everything, 403 disallow everything, and 503 leaves it
\* unread, for which can_fetch answers False.
check_robots_txt(s, w) ==
    IF ~s.respect_robots THEN TRUE
    ELSE IF w.robots = "raise" THEN TRUE
    ELSE w.robots \in {"allow", "http_404"}

\* fetch_page entered at time t.  w.status is the status of the response, 0
\* when session.get raised; raise_for_status raises for 400..599.  gets are
\* the times at which a GET for url was issued.
fetch_page(s, t, url, w) ==
    LET checked == IF s.respect_robots THEN t + w.robots_time ELSE t
        limited == rate_limit(s, checked)
        at == checked + limited.slept
        failed == w.status = 0 \/ (400 <= w.status /\ w.status < 600)
    IN  IF ~check_robots_txt(s, w)
        THEN [scraper |-> s, now |-> checked, response |-> None,
              fetch |-> [url |-> url, started |-> t, slept |-> 0, gets |-> <<>>]]
        ELSE [scraper |-> limited.scraper, now |-> at + 1,
              response |-> IF failed THEN None
                           ELSE Some([status_code |-> w.status, text |-> w.body]),
              fetch |-> [url |-> url, started |-> t, slept |-> limited.slept,
                         gets |-> <<at>>]]

\* a pipeline that sets the text whatever the fetch did, against which C15 is
\* measured
scrape_page_TextOnError(s, t, url, flags, w) ==
    LET f == fetch_page(s, t, url, w)
    IN  [scraper |-> f.scraper, now |-> f.now, fetches |-> <<f.fetch>>,
         results |-> <<[url |-> url, title |-> None, text_content |-> Some(""),
                        links |-> None, images |-> None, metadata |-> None,
                        status_code |-> IF IsNone(f.response) THEN 0
                                        ELSE Val(f.response).status_code,
                        error |-> IF IsNone(f.response)
                                  THEN Some("Failed to fetch page") ELSE None]>>]
\* scrape_page entered at time t.  The extractors catch what they raise and
\* return what they have (lines 228-230, 265-268, 307-310, 355-358); parse_html
\* can raise from its fallback (line 195), which line 410 catches.
scrape_page(s, t, url, flags, w) ==
    LET f == fetch_page(s, t, url, w)
        blank == [url |-> url, status_code |-> 0, title |-> None,
                  text_content |-> None, links |-> None, images |-> None,
                  metadata |-> None, error |-> None]
        full == w.body = "html"
        result ==
            IF IsNone(f.response)
            THEN [blank EXCEPT !.error = Some("Failed to fetch page")]
            ELSE IF Val(f.response).text = "unparseable"
            THEN [blank EXCEPT !.status_code = Val(f.response).status_code,
                               !.error = Some("Error scraping")]
            ELSE [blank EXCEPT
                    !.status_code = Val(f.response).status_code,
                    !.text_content = IF flags.extract_text
                                     THEN Some(IF full THEN "text" ELSE "") ELSE None,
                    !.links = IF flags.extract_links
                              THEN Some(IF full THEN 2 ELSE 0) ELSE None,
                    !.images = IF flags.extract_images
                               THEN Some(IF full THEN 1 ELSE 0) ELSE None,
                    !.metadata = IF flags.extract_metadata
                                 THEN Some(IF full THEN {"title"} ELSE {}) ELSE None,
                    !.title = IF flags.extract_metadata /\ full
                              THEN Some("T") ELSE None]
    IN  [scraper |-> f.scraper, now |-> f.now, results |-> <<result>>,
         fetches |-> <<f.fetch>>]

\* a batch that leaves the failed pages out, against which C17 is measured
RECURSIVE scrape_multiple_pages_DropFailed(_, _, _, _, _, _)
scrape_multiple_pages_DropFailed(s, t, urls, flags, worlds, i) ==
    IF i > Len(urls)
    THEN [scraper |-> s, now |-> t, results |-> <<>>, fetches |-> <<>>]
    ELSE LET one == scrape_page(s, t, urls[i], flags, worlds[i])
             rest == scrape_multiple_pages_DropFailed(one.scraper, one.now, urls,
                                                      flags, worlds, i + 1)
         IN  [rest EXCEPT !.results = IF IsNone(one.results[1].error)
                                      THEN one.results \o @ ELSE @,
                          !.fetches = one.fetches \o @]
\* scrape_multiple_pages: the loop of lines 432-435 from the i-th URL on
RECURSIVE scrape_multiple_pages(_, _, _, _, _, _)
scrape_multiple_pages(s, t, urls, flags, worlds, i) ==
    IF i > Len(urls)
    THEN [scraper |-> s, now |-> t, results |-> <<>>, fetches |-> <<>>]
    ELSE LET one == scrape_page(s, t, urls[i], flags, worlds[i])
             rest == scrape_multiple_pages(one.scraper, one.now, urls, flags,
                                           worlds, i + 1)
         IN  [rest EXCEPT !.results = one.results \o @,
                          !.fetches = one.fetches \o @]

\* what robots.txt and the target answer during one scrape_page call; robots.txt
\* is read only by an instance that respects it, and a target the gate refuses
\* is never asked
ScraperWorlds(s, robots, answers) ==
    IF s.respect_robots
    THEN { w \in { [robots |-> r, robots_time |-> d, status |-> a[1], body |-> a[2]] :
                      r \in robots, d \in {0, 1}, a \in answers } :
              check_robots_txt(s, w) \/ (w.status = 200 /\ w.body = "html") }
    ELSE { [robots |-> "unread", robots_time |-> 0, status |-> a[1], body |-> a[2]] :
              a \in answers }

InitScraper ==
    /\ \E delay \in {0, 2}, respect_robots \in BOOLEAN :
          web = [scraper |-> WebScraper_init(delay, respect_robots),
                 now     |-> Epoch,
                 call    |-> [op |-> "none", urls |-> <<>>, flags |-> <<>>,
                              worlds |-> <<>>, before |-> <<>>, results |-> <<>>, fetches |-> <<>>]]
    /\ environ = [openai_key |-> FALSE, anthropic_key |-> FALSE]
    /\ bot = WebScrapingChatbot_init("openai", environ, EngineSid)
    /\ db_pages = <<>>
    /\ ret = NoRet
    /\ scrape_log = <<>>
    /\ ai = NoAi
    /\ run = NoRun
    /\ HostIdle
    /\ classified = None
    /\ threads = <<>>

\* the instance, the clock and the record of the call after a call returned r;
\* before holds the fetches of earlier calls that issued a GET, the last one kept
Called(op, urls, flags, worlds, r) ==
    LET issued == SelectSeq(web.call.before \o web.call.fetches,
                            LAMBDA f : f.gets # <<>>)
    IN  /\ web' = [scraper |-> r.scraper,
                   now     |-> r.now,
                   call    |-> [op |-> op, urls |-> urls, flags |-> flags,
                                worlds |-> worlds,
                                before |-> IF issued = <<>> THEN <<>>
                                           ELSE <<issued[Len(issued)]>>,
                                results |-> r.results, fetches |-> r.fetches]]
        /\ UNCHANGED <<environ, bot, db_pages, ret, scrape_log, ai, run, flask_session,
                       chatbot_instances, engines, http, uuids, classified, threads>>

\* one scrape_page call, gap ticks after the previous call returned
ScrapePage ==
    /\ web.now < Epoch + Horizon
    /\ \E gap \in {0, 1, 2},
          flags \in { [extract_text |-> TRUE, extract_links |-> TRUE,
                       extract_images |-> TRUE, extract_metadata |-> TRUE],
                      [extract_text |-> TRUE, extract_links |-> FALSE,
                       extract_images |-> FALSE, extract_metadata |-> FALSE],
                      [extract_text |-> FALSE, extract_links |-> TRUE,
                       extract_images |-> TRUE, extract_metadata |-> FALSE] },
          w \in ScraperWorlds(web.scraper, {"allow", "disallow", "raise", "http_404",
                                           "http_403", "http_503"},
                              { <<0, "">>, <<404, "html">>, <<200, "html">>,
                                <<200, "empty">>, <<200, "unparseable">>,
                                <<300, "empty">> }) :
          Called("scrape_page", <<UA1>>, flags, <<w>>,
                 scrape_page(web.scraper, web.now + gap, UA1, flags, w))

\* one scrape_multiple_pages call, right after the previous call returned
ScrapeMultiplePages ==
    /\ web.now < Epoch + Horizon
    /\ \E urls \in { <<>>, <<UA1, UB>>, <<UB, UA1, UA1>> } :
          \E worlds \in [1..Len(urls) ->
                            ScraperWorlds(web.scraper, {"allow", "disallow"},
                                          { <<0, "">>, <<200, "html">> })] :
             LET flags == [extract_text |-> TRUE, extract_links |-> TRUE,
                           extract_images |-> FALSE, extract_metadata |-> TRUE]
             IN  Called("scrape_multiple_pages", urls, flags, worlds,
                        scrape_multiple_pages(web.scraper, web.now, urls, flags,
                                              worlds, 1))

NextScraper ==
    \/ ScrapePage
    \/ ScrapeMultiplePages

SpecScraper == InitScraper /\ [][NextScraper]_vars

(***************************************************************************)
(* Claims about the scraper                                                *)
(***************************************************************************)
Scrapes == 1..Len(web.call.fetches)
GetFailed(w) == w.status = 0 \/ (400 <= w.status /\ w.status < 600)

\* the request for robots.txt, or the parsing of it, raised an error
RobotsFailed(w) == w.robots \in {"raise", "http_404", "http_403", "http_503"}

\* C12: when fetching or parsing robots.txt raises an error, the gate lets the
\* scrape through: the page GET is issued and the result has an error only if
\* the GET or the parsing of the page failed.
C12_RobotsGateFailsOpen ==
    \A i \in Scrapes :
       (web.scraper.respect_robots /\ RobotsFailed(web.call.worlds[i])) =>
          /\ Len(web.call.fetches[i].gets) = 1
          /\ ~IsNone(web.call.results[i].error) <=>
                (GetFailed(web.call.worlds[i]) \/ web.call.worlds[i].body = "unparseable")

\* C12: robots.txt could not be read and the page was scraped all the same
C12_W_ScrapedThoughRobotsRaised ==
    /\ web.call.op = "scrape_page" /\ web.scraper.respect_robots
    /\ web.call.worlds[1].robots = "raise"
    /\ IsNone(web.call.results[1].error)
    /\ web.call.results[1].text_content = Some("text")

\* C13: when robots.txt is respected and disallows the target, no GET for the
\* target is issued in that scrape and the result carries an error.
C13_DisallowedIsNotFetched ==
    \A i \in Scrapes :
       (web.scraper.respect_robots /\ web.call.worlds[i].robots = "disallow") =>
          /\ web.call.fetches[i].gets = <<>>
          /\ ~IsNone(web.call.results[i].error)

\* C13: a disallowed target in the middle of a batch
C13_W_DisallowedInBatch ==
    /\ web.call.op = "scrape_multiple_pages" /\ Len(web.call.urls) = 3
    /\ web.call.worlds[2].robots = "disallow"
    /\ web.call.worlds[3].robots = "allow"
    /\ web.call.fetches[3].gets # <<>>

\* the fetches that issued a GET, the last one of the earlier calls included
Issued == SelectSeq(web.call.before \o web.call.fetches, LAMBDA f : f.gets # <<>>)

\* C14: of two consecutive page fetches of one instance the second GET starts
\* no earlier than the start of the first plus the delay, and the first fetch
\* of the instance does not sleep.
C14_DelayBetweenFetches ==
    /\ \A i \in 1..(Len(Issued) - 1) :
          Issued[i + 1].gets[1] >= Issued[i].started + web.scraper.delay
    /\ (web.call.before = <<>> /\ Issued # <<>>) => Issued[1].slept = 0

\* C14: a fetch that had to sleep after a fetch whose GET failed
C14_W_SleptAfterFailedFetch ==
    /\ web.call.op = "scrape_multiple_pages" /\ Len(web.call.urls) = 2
    /\ web.call.worlds[1].status = 0
    /\ web.call.fetches[1].gets # <<>>
    /\ web.call.fetches[2].slept > 0

Unpopulated(r) == IsNone(r.text_content) /\ IsNone(r.links) /\ IsNone(r.images)

\* C15: a result with an error has no text, links or images; a result without
\* one has a positive status code and has text, links and images set exactly
\* for the flags the call was made with.
C15_ErrorMeansUnpopulated ==
    \A i \in Scrapes :
       LET r == web.call.results[i]
           flags == web.call.flags
       IN  IF ~IsNone(r.error) THEN Unpopulated(r)
           ELSE /\ r.status_code > 0
                /\ ~IsNone(r.text_content) <=> flags.extract_text
                /\ ~IsNone(r.links) <=> flags.extract_links
                /\ ~IsNone(r.images) <=> flags.extract_images

\* C15: a page that was fetched and could not be parsed, and a page scraped
\* for its links and images alone
C15_W_ParseErrorAfterFetch ==
    /\ web.call.op = "scrape_page"
    /\ web.call.results[1].status_code = 200
    /\ ~IsNone(web.call.results[1].error)
    /\ web.call.before # <<>>

\* C17: scrape_multiple_pages returns one result per URL, the i-th result for
\* the i-th URL, and scrapes the URLs one after the other in input order.
C17_OneResultPerUrlInOrder ==
    web.call.op = "scrape_multiple_pages" =>
        /\ Len(web.call.results) = Len(web.call.urls)
        /\ Len(web.call.fetches) = Len(web.call.urls)
        /\ \A i \in 1..Len(web.call.urls) :
              /\ web.call.results[i].url = web.call.urls[i]
              /\ web.call.fetches[i].url = web.call.urls[i]
        /\ \A i \in 1..(Len(web.call.fetches) - 1) :
              LET f == web.call.fetches[i]
              IN  web.call.fetches[i + 1].started >=
                     (IF f.gets = <<>> THEN f.started ELSE f.gets[1] + 1)

\* C17: a batch of three whose first page failed and whose last succeeded
C17_W_BatchWithFailure ==
    /\ web.call.op = "scrape_multiple_pages" /\ Len(web.call.urls) = 3
    /\ ~IsNone(web.call.results[1].error)
    /\ IsNone(web.call.results[3].error)

\* C18: a scrape issues at most one GET for its URL, and a GET that met a
\* connection failure, a timeout or a status outside 200..299 yields a result
\* with an error.
C18_TransportErrorIsTerminal ==
    \A i \in Scrapes :
       LET f == web.call.fetches[i]
           w == web.call.worlds[i]
       IN  /\ Len(f.gets) <= 1
           /\ (f.gets # <<>> /\ (w.status < 200 \/ w.status > 299)) =>
                 ~IsNone(web.call.results[i].error)

\* C18: a GET answered 404 and not repeated
C18_W_FailedGetNotRetried ==
    /\ web.call.op = "scrape_page"
    /\ web.call.worlds[1].status = 404
    /\ Len(web.call.fetches[1].gets) = 1
    /\ web.call.results[1].error = Some("Failed to fetch page")

(***************************************************************************)
(* Intent classification on the characters of the message, and scrape      *)
(* requests with several URLs: SpecWide                                     *)
(***************************************************************************)
MaxBatches == 1

\* the characters of a string, for the keywords and the messages of SpecWide
Spell(s) ==
    CASE s = "scrape" ->
            <<"s", "c", "r", "a", "p", "e">>
      [] s = "fetch" ->
            <<"f", "e", "t", "c", "h">>
      [] s = "get" ->
            <<"g", "e", "t">>
      [] s = "extract from" ->
            <<"e", "x", "t", "r", "a", "c", "t", " ", "f", "r", "o", "m">>
      [] s = "analyze" ->
            <<"a", "n", "a", "l", "y", "z", "e">>
      [] s = "analysis" ->
            <<"a", "n", "a", "l", "y", "s", "i", "s">>
      [] s = "sentiment" ->
            <<"s", "e", "n", "t", "i", "m", "e", "n", "t">>
      [] s = "summary" ->
            <<"s", "u", "m", "m", "a", "r", "y">>
      [] s = "summarize" ->
            <<"s", "u", "m", "m", "a", "r", "i", "z", "e">>
      [] s = "show" ->
            <<"s", "h", "o", "w">>
      [] s = "display" ->
            <<"d", "i", "s", "p", "l", "a", "y">>
      [] s = "list" ->
            <<"l", "i", "s", "t">>
      [] s = "links" ->
            <<"l", "i", "n", "k", "s">>
      [] s = "images" ->
            <<"i", "m", "a", "g", "e", "s">>
      [] s = "data" ->
            <<"d", "a", "t", "a">>
      [] s = "help" ->
            <<"h", "e", "l", "p">>
      [] s = "commands" ->
            <<"c", "o", "m", "m", "a", "n", "d", "s">>
      [] s = "what can you do" ->
            <<"w", "h", "a", "t", " ", "c", "a", "n", " ", "y", "o", "u", " ", "d", "o">>
      [] s = "stats" ->
            <<"s", "t", "a", "t", "s">>
      [] s = "statistics" ->
            <<"s", "t", "a", "t", "i", "s", "t", "i", "c", "s">>
      [] s = "session" ->
            <<"s", "e", "s", "s", "i", "o", "n">>
      [] s = "feeling" ->
            <<"f", "e", "e", "l", "i", "n", "g">>
      [] s = "emotion" ->
            <<"e", "m", "o", "t", "i", "o", "n">>
      [] s = "main points" ->
            <<"m", "a", "i", "n", " ", "p", "o", "i", "n", "t", "s">>
      [] s = "http://" ->
            <<"h", "t", "t", "p", ":", "/", "/">>
      [] s = "https://" ->
            <<"h", "t", "t", "p", "s", ":", "/", "/">>
      [] s = "https://x.test" ->
            <<"h", "t", "t", "p", "s", ":", "/", "/", "x", ".", "t", "e", "s", "t">>
      [] s = "scrape https://x.test and analyze it" ->
            <<"s", "c", "r", "a", "p", "e", " ", "h", "t", "t", "p", "s", ":", "/", "/", "x", ".", "t", "e", "s", "t", " ", "a", "n", "d", " ", "a", "n", "a", "l", "y", "z", "e", " ", "i", "t">>
      [] s = "ANALYZE the Summary" ->
            <<"A", "N", "A", "L", "Y", "Z", "E", " ", "t", "h", "e", " ", "S", "u", "m", "m", "a", "r", "y">>
      [] s = "Show session stats" ->
            <<"S", "h", "o", "w", " ", "s", "e", "s", "s", "i", "o", "n", " ", "s", "t", "a", "t", "s">>
      [] s = "help me list commands" ->
            <<"h", "e", "l", "p", " ", "m", "e", " ", "l", "i", "s", "t", " ", "c", "o", "m", "m", "a", "n", "d", "s">>
      [] s = "HELP" ->
            <<"H", "E", "L", "P">>
      [] s = "Session Statistics" ->
            <<"S", "e", "s", "s", "i", "o", "n", " ", "S", "t", "a", "t", "i", "s", "t", "i", "c", "s">>
      [] s = "What can you do" ->
            <<"W", "h", "a", "t", " ", "c", "a", "n", " ", "y", "o", "u", " ", "d", "o">>
      [] s = "hello there" ->
            <<"h", "e", "l", "l", "o", " ", "t", "h", "e", "r", "e">>
      [] s = "put it together" ->
            <<"p", "u", "t", " ", "i", "t", " ", "t", "o", "g", "e", "t", "h", "e", "r">>
      [] s = "analyze https://x.test/get" ->
            <<"a", "n", "a", "l", "y", "z", "e", " ", "h", "t", "t", "p", "s", ":", "/", "/", "x", ".", "t", "e", "s", "t", "/", "g", "e", "t">>
      [] s = "Summarize HTTPS://X.TEST" ->
            <<"S", "u", "m", "m", "a", "r", "i", "z", "e", " ", "H", "T", "T", "P", "S", ":", "/", "/", "X", ".", "T", "E", "S", "T">>
      [] s = "" ->
            <<>>
      [] s = "fetch http://a.test/1 https://b.test/" ->
            <<"f", "e", "t", "c", "h", " ", "h", "t", "t", "p", ":", "/", "/", "a", ".", "t", "e", "s", "t", "/", "1", " ", "h", "t", "t", "p", "s", ":", "/", "/", "b", ".", "t", "e", "s", "t", "/">>
      [] s = "see http:// andhttps://b.test/" ->
            <<"s", "e", "e", " ", "h", "t", "t", "p", ":", "/", "/", " ", "a", "n", "d", "h", "t", "t", "p", "s", ":", "/", "/", "b", ".", "t", "e", "s", "t", "/">>

\* str.lower on one character
Lower(c) ==
    CASE c = "A" -> "a"
      [] c = "E" -> "e"
      [] c = "H" -> "h"
      [] c = "L" -> "l"
      [] c = "N" -> "n"
      [] c = "P" -> "p"
      [] c = "S" -> "s"
      [] c = "T" -> "t"
      [] c = "W" -> "w"
      [] c = "X" -> "x"
      [] c = "Y" -> "y"
      [] c = "Z" -> "z"
      [] OTHER -> c

\* word in text, both sequences of characters
Occurs(word, text) ==
    \E o \in 0..(Len(text) - Len(word)) : SubSeq(text, o + 1, o + Len(word)) = word

\* re.findall(r'https?://[^\s]+', message) from position i on: at each position
\* the scheme, then the longest run without white space, which must not be empty
RECURSIVE findall(_, _)
findall(text, i) ==
    IF i > Len(text) THEN <<>>
    ELSE LET at(w) == /\ i + Len(w) - 1 <= Len(text)
                      /\ SubSeq(text, i, i + Len(w) - 1) = w
             head == IF at(Spell("https://")) THEN 8
                     ELSE IF at(Spell("http://")) THEN 7 ELSE 0
             stop == CHOOSE j \in (i + head)..(Len(text) + 1) :
                        /\ j = Len(text) + 1 \/ text[j] = " "
                        /\ \A k \in (i + head)..(j - 1) : text[k] # " "
         IN  IF head > 0 /\ stop > i + head
             THEN <<SubSeq(text, i, stop - 1)>> \o findall(text, stop)
             ELSE findall(text, i + 1)

\* _analyze_intent on the string s: message_lower, the keywords contained in
\* it, the action and the parameters they give, and the URLs of the message
Classify ==
    /\ Calls(bot) = 0
    /\ \E s \in { "scrape https://x.test and analyze it",
          "ANALYZE the Summary",
          "Show session stats",
          "help me list commands",
          "HELP",
          "Session Statistics",
          "What can you do",
          "hello there",
          "put it together",
          "analyze https://x.test/get",
          "Summarize HTTPS://X.TEST",
          "",
          "fetch http://a.test/1 https://b.test/",
          "see http:// andhttps://b.test/" } :
          LET text == Spell(s)
              message_lower == [i \in 1..Len(text) |-> Lower(text[i])]
              words == ScrapeWords \cup AnalyzeWords \cup ShowWords \cup HelpWords
                          \cup StatsWords \cup {"feeling", "emotion", "main points"}
              m == Message(s, {w \in words : Occurs(Spell(w), message_lower)}, <<>>)
          IN  classified' = Some([text       |-> s,
                                  action     |-> IntentAction(m),
                                  urls       |-> findall(text, 1),
                                  parameters |-> IntentParameters(m)])
    /\ UNCHANGED <<environ, bot, db_pages, ret, scrape_log, ai, run, flask_session,
                   chatbot_instances, engines, http, uuids, web, threads>>

MScrapeThree == Message("get https://a.test/1 https:///x https://b.test/", {"get"},
                        <<UA1, UBad, UB>>)

\* the two operations are looked at apart: a message is classified on the
\* fresh engine, and scrape requests are handled by an engine that classified
\* nothing
NextWide ==
    \/ Classify
    \/ /\ classified = None
       /\ ScrapeRequest({MScrapeBadB, MScrapeThree}, {PageFailed, PageLong, PageRaises},
                        DbOutcomes, MaxBatches)

SpecWide == Init /\ [][NextWide]_vars

(***************************************************************************)
(* Claims about classification and scrape requests with several URLs       *)
(***************************************************************************)
\* word is in text whatever the case of the letters of text
OccursFolded(word, text) ==
    \E o \in 0..(Len(text) - Len(word)) :
       \A j \in 1..Len(word) : Lower(text[o + j]) = word[j]

\* the keyword groups in the order of the claim
Precedence ==
    << [action |-> "scrape",    words |-> ScrapeWords],
       [action |-> "analyze",   words |-> AnalyzeWords],
       [action |-> "show_data", words |-> ShowWords],
       [action |-> "help",      words |-> HelpWords],
       [action |-> "stats",     words |-> StatsWords] >>

\* C16: the action of a message is that of the first group, in the order
\* scrape, analyze, show_data, help, stats, with a keyword contained in the
\* message whatever its case, and unknown when no group has one; "scrape
\* https://x.test and analyze it" gives scrape with the one URL https://x.test.
C16_ActionByPrecedence ==
    classified # None =>
       LET c == Val(classified)
           hit == {k \in 1..Len(Precedence) :
                     \E w \in Precedence[k].words : OccursFolded(Spell(w), Spell(c.text))}
       IN  /\ c.action = IF hit = {} THEN "unknown"
                         ELSE Precedence[CHOOSE k \in hit : \A l \in hit : k <= l].action
           /\ c.text = "scrape https://x.test and analyze it" =>
                 (c.action = "scrape" /\ c.urls = <<Spell("https://x.test")>>)

\* C16: a message in capitals with keywords of two groups, classified by the
\* earlier one
C16_W_CapitalsTwoGroups ==
    /\ classified # None
    /\ Val(classified).text = "ANALYZE the Summary"
    /\ Val(classified).action = "analyze"

\* the first line of each section of a reply
Heads(reply) ==
    LET first == {i \in 1..Len(reply) : i = 1 \/ reply[i - 1] = BlankLine}
    IN  [k \in 1..Cardinality(first) |->
            reply[CHOOSE i \in first : Cardinality({j \in first : j < i}) = k - 1]]

\* the URLs of the scrape request that was handled last
AskedUrls ==
    FindUrls(CHOOSE m \in {MScrapeBadB, MScrapeThree} : m.text = ret.text)

\* C19: a scrape request with several URLs is answered with one section per
\* URL in the order of the message; an invalid URL or a scrape that raised has
\* an error line as its section, and the URLs after it are scraped all the same.
C19_EveryUrlHasItsSection ==
    ret.action = "scrape" =>
       LET heads == Heads(ret.reply)
           done == SelectSeq(AskedUrls,
                      LAMBDA u : \E i \in 1..Len(heads) :
                         /\ heads[i].s = u.netloc
                         /\ heads[i].tag \in {"Successfully scraped", "Failed to scrape"})
           before == Len(scrape_log) - Len(done)
       IN  /\ ~ret.raised
           /\ Len(heads) = Len(AskedUrls)
           /\ \A i \in 1..Len(AskedUrls) :
                 IF is_valid_url(AskedUrls[i])
                 THEN /\ heads[i].s = AskedUrls[i].netloc
                      /\ heads[i].tag \in {"Successfully scraped", "Failed to scrape",
                                           "Error scraping"}
                 ELSE heads[i] = Line("Invalid URL", AskedUrls[i].path, 0)
           /\ before >= 0
           /\ \A k \in 1..Len(done) : scrape_log[before + k].result.url = done[k]

\* C19: a scrape that raised, an invalid URL and a page that was scraped, in
\* one reply
C19_W_ErrorsThenScraped ==
    /\ ret.text = MScrapeThree.text
    /\ Len(Heads(ret.reply)) = 3
    /\ Heads(ret.reply)[1].tag = "Error scraping"
    /\ Heads(ret.reply)[2].tag = "Invalid URL"
    /\ Heads(ret.reply)[3].tag = "Successfully scraped"

\* C20: whatever the pages of a scrape request the engine can take are, its
\* reply, the domain cache and the counters after the call are those of the
\* same request with every save_scraped_page succeeding.
C20_SaveFailureIsInvisible ==
    Calls(bot) < MaxBatches =>
    \A w1, w3 \in WorldsFor(bot, {PageFailed, PageLong, PageRaises}, {"ok"},
                            InsightReplies(bot)) :
       (/\ WorldFits(bot, UA1, w1, {PageFailed, PageLong, PageRaises}, {"ok"},
                     InsightReplies(bot))
        /\ WorldFits(bot, UB, w3, {PageFailed, PageLong, PageRaises}, {"ok"},
                     InsightReplies(bot))) =>
          LET saved == process_message(bot, db_pages, scrape_log, MScrapeThree,
                                       <<w1, NoWorld, w3>>, "none")
          IN  \A d1, d3 \in DbOutcomes :
                 LET met == process_message(bot, db_pages, scrape_log, MScrapeThree,
                                            <<[w1 EXCEPT !.db = d1], NoWorld,
                                              [w3 EXCEPT !.db = d3]>>, "none")
                 IN  /\ met.out = saved.out
                     /\ met.bot.scraped_data = saved.bot.scraped_data
                     /\ met.bot.session_stats = saved.bot.session_stats

\* C20: a request whose pages were scraped and reported while no row was saved
C20_W_ScrapedButNotSaved ==
    /\ ret.text = MScrapeThree.text
    /\ Heads(ret.reply)[1].tag = "Successfully scraped"
    /\ Heads(ret.reply)[3].tag = "Successfully scraped"
    /\ bot.session_stats.pages_scraped = 2
    /\ db_pages = <<>>

(***************************************************************************)
(* Claims about the handlers of the session engine                         *)
(***************************************************************************)
\* the step is one process_message call on the engine
Handled == Calls(bot') = Calls(bot) + 1

\* C21: a help or stats request makes no fetch, no provider call and no
\* write to the store, leaves everything of the engine but the conversation
\* history as it was and returns its text; the text of help is the static one.
C21_HelpAndStatsTouchNothing ==
    [][(Handled /\ ret'.action \in {"help", "stats"}) =>
          /\ db_pages' = db_pages
          /\ scrape_log' = scrape_log
          /\ [bot' EXCEPT !.conversation_history = bot.conversation_history] = bot
          /\ Len(bot'.conversation_history) = Len(bot.conversation_history) + 2
          /\ ~ret'.raised
          /\ ret'.action = "help" =>
                ret'.reply = <<Line("Web Scraping Assistant - Available Commands", "", 0)>>]_vars

\* C21: help asked of an engine that has done nothing yet
C21_W_HelpOnEmptySession ==
    /\ ret.action = "help"
    /\ Len(bot.conversation_history) = 2
    /\ bot.scraped_data = <<>>
    /\ ret.reply = HelpText

\* C22: every process_message call returns a text reply to its caller: no
\* call ends with an exception.
C22_AlwaysATextReply == ~ret.raised

\* C22: a scrape whose save failed, answered with a reply
C22_W_ReplyThoughSaveFailed ==
    /\ ret.action = "scrape" /\ ~ret.raised
    /\ scrape_log # <<>> /\ db_pages = <<>>
    /\ ret.reply # <<>>

\* C23: a scrape request that names its target without a scheme scrapes the
\* target under https://.
C23_BareTargetIsScraped ==
    [][(Handled /\ ret'.text = MScrapeBare.text) =>
          /\ Len(scrape_log') = Len(scrape_log) + 1
          /\ scrape_log'[Len(scrape_log')].result.url = normalize_url(UBare)]_vars

\* C23: the request for a target without a scheme, answered
C23_W_BareTargetAsked ==
    /\ ret.text = MScrapeBare.text
    /\ ret.action = "scrape"
    /\ ret.reply = NoUrlReply

\* C24: while the engine has scraped nothing, an analyze or show_data request
\* returns its fixed message asking to scrape a website first, raises nothing
\* and leaves cache, counters, store and log as they were.
C24_NothingScrapedYet ==
    [][(Handled /\ ret'.action \in {"analyze", "show_data"} /\ scrape_log = <<>>) =>
          /\ ~ret'.raised
          /\ ret'.reply =
                IF ret'.action = "analyze"
                THEN <<Line("I haven't scraped any websites yet. Please scrape a website first, then I can analyze the content.", "", 0)>>
                ELSE <<Line("I haven't scraped any websites yet. Please scrape a website first.", "", 0)>>
          /\ bot'.scraped_data = <<>>
          /\ bot'.session_stats = bot.session_stats
          /\ db_pages' = db_pages
          /\ scrape_log' = <<>>]_vars

\* C24: the sentiment asked of an engine that was asked for a scrape without
\* a URL before
C24_W_AnalyzeBeforeAnyScrape ==
    /\ ret.text = MSentiment.text
    /\ Calls(bot) = 2
    /\ scrape_log = <<>>
    /\ bot.conversation_history[1].content = <<Line(MScrapeNone.text, "", 0)>>

(***************************************************************************)
(* Claims about the engines of the hosting layer                           *)
(***************************************************************************)
\* C28: a chat request that needs an engine for its session and provider gets
\* one: the construction does not raise, whatever the provider name, and the
\* engine of a provider without a key or of an unknown provider has its AI
\* features disabled.
C28_EngineIsCreated ==
    [][(Served("chat") /\ http'.status # 400) =>
          LET key == SessionKey(Val(flask_session[http'.client]), http'.provider)
          IN  /\ DictHas(chatbot_instances', key)
              /\ ~engines'[DictGet(chatbot_instances', key)].closed
              /\ http'.provider = "gemini" =>
                    ~engines'[DictGet(chatbot_instances', key)].bot.ai_available]_vars

(***************************************************************************)
(* Claims about the provider of the session engine                         *)
(***************************************************************************)
\* C29: the scrapes of an engine whose selected provider has no key (its
\* ai_available is false) make no provider call and store results without AI
\* summary and analysis, whatever other key the environment holds.
C29_NoKeyNoProviderCall ==
    ~bot.ai_available =>
       \A i \in 1..Len(scrape_log) :
          /\ scrape_log[i].calls = <<>>
          /\ IsNone(scrape_log[i].result.ai_summary)
          /\ IsNone(scrape_log[i].result.ai_analysis)

\* C29: a page with text scraped by an engine in an environment without keys
C29_W_ScrapedWithoutAnyKey ==
    /\ ~bot.ai_available /\ ~AiConfigured(bot)
    /\ scrape_log # <<>>
    /\ LastScrape.result.content_length > 0
    /\ LastScrape.calls = <<>>
    /\ IsNone(LastScrape.result.ai_analysis)

(***************************************************************************)
(* Claims about the session ids of the store                               *)
(***************************************************************************)
\* C30: every page a chat request stores is stored under the session id of
\* the browser session that sent the request.
C30_PagesUnderHostSession ==
    [][Served("chat") =>
          \A i \in (Len(db_pages) + 1)..Len(db_pages') :
             db_pages'[i].session_id = Val(flask_session[http'.client])]_vars

\* C30: a chat request that stored a page
C30_W_ChatStoredAPage ==
    /\ http.route = "chat" /\ http.status = 200
    /\ db_pages # <<>>
    /\ ret.action = "scrape"

(***************************************************************************)
(* Claims about the entities of an analysis                                *)
(***************************************************************************)
\* C27: whatever the provider answered, the entities of an analysis are a map
\* that has the keys people, places, organizations and other.
C27_EntitiesHaveCanonicalKeys ==
    (run.pc # "idle" /\ ~IsNone(run.result.extracted_entities)) =>
       /\ Val(run.result.extracted_entities).jt = "object"
       /\ CanonicalKeys \subseteq Val(run.result.extracted_entities).keys

\* C27: a reply that is no JSON, answered with the four keys
C27_W_GarbledReplyGivesDefaults ==
    /\ Len(run.replies) >= 4 /\ run.replies[4] = "garbled"
    /\ run.result.extracted_entities = Some(Entities("object", CanonicalKeys))

(***************************************************************************)
(* Claims about the separation of the sessions                             *)
(***************************************************************************)
\* the entries of the registry that belong to another session than sid
OfOthers(registry, sid) ==
    {i \in 1..Len(registry) : registry[i].k.sid # sid}

\* C25: a chat request of one session leaves the registry entry and the
\* engine (history, cache, counters, rate-limiter clock, open or closed) of
\* every other session as they were, also when it creates or replaces the
\* requester's own instance.
C25_OtherSessionsUntouched ==
    [][(Served("chat") /\ ~IsNone(flask_session[http'.client])) =>
          LET sid == Val(flask_session[http'.client])
          IN  \A i \in OfOthers(chatbot_instances, sid) :
                 LET e == chatbot_instances[i]
                 IN  /\ DictHas(chatbot_instances', e.k)
                     /\ DictGet(chatbot_instances', e.k) = e.v
                     /\ engines'[e.v] = engines[e.v]]_vars

\* C25, the case: a session replaces its instance and scrapes while another
\* session holds an engine that has talked and scraped
C25_W_ReplacedBesideAnother ==
    /\ http.route = "chat" /\ http.status = 200
    /\ ~IsNone(flask_session[http.client])
    /\ \E i, j \in 1..Len(chatbot_instances) :
          /\ chatbot_instances[i].k.sid = Val(flask_session[http.client])
          /\ chatbot_instances[j].k.sid # Val(flask_session[http.client])
          /\ engines[chatbot_instances[i].v].last_request_time = http.n
          /\ engines[chatbot_instances[j].v].last_request_time > 0
          /\ ~engines[chatbot_instances[j].v].closed
          /\ engines[chatbot_instances[j].v].bot.conversation_history # <<>>
    /\ \E x \in 1..Len(engines) : engines[x].closed

(***************************************************************************)
(* Concurrent chat requests of one session (web_ui.py:64-99): SpecRace     *)
(*                                                                         *)
(* app.run (web_ui.py:724) serves each request on a thread of its own, and *)
(* chat takes no lock around chatbot_instances (web_ui.py:32).  A request  *)
(* goes through chat statement by statement; the statements of different   *)
(* requests interleave.  All requests here carry the session id of one     *)
(* browser.                                                                *)
(***************************************************************************)
MaxInFlight == 3

\* the browser whose requests run concurrently (session.get, line 75)
RaceClient == "c1"

\* the state once the browser has loaded the index page (lines 46-52)
InitRace ==
    /\ environ = [openai_key |-> TRUE, anthropic_key |-> FALSE]
    /\ flask_session = [c \in Clients |->
                           IF c = RaceClient THEN Some(uuid4(1)) ELSE None]
    /\ chatbot_instances = <<>>
    /\ engines = <<>>
    /\ http = [n |-> 1, route |-> "index", client |-> RaceClient,
               provider |-> "", status |-> 200, body |-> <<>>]
    /\ uuids = 2
    /\ bot = WebScrapingChatbot_init("openai", [openai_key |-> FALSE,
                                                anthropic_key |-> FALSE], EngineSid)
    /\ db_pages = <<>>
    /\ ret = NoRet
    /\ scrape_log = <<>>
    /\ ai = NoAi
    /\ run = NoRun
    /\ web = None
    /\ classified = None
    /\ threads = <<>>

RaceFrame == UNCHANGED <<environ, bot, ai, run, flask_session, web, classified>>

\* the request leaves chat with a response (lines 93-99)
Finish(t, status, body) ==
    /\ threads' = [threads EXCEPT ![t].pc = "done"]
    /\ Respond("chat", RaceClient, threads[t].provider, status, body)

\* lines 67-80: the request is read, the session id taken from the cookie
\* and the key built
Arrive(provider, message) ==
    /\ Len(threads) < MaxInFlight
    /\ threads' = Append(threads,
                         [pc |-> "check", provider |-> provider,
                          message |-> message,
                          key |-> SessionKey(Val(flask_session[RaceClient]), provider),
                          old |-> <<>>, chatbot |-> 0])
    /\ UNCHANGED <<chatbot_instances, engines, db_pages, scrape_log, ret, uuids, http>>
    /\ RaceFrame

\* lines 81-83: the membership test and, the key being absent, the list of
\* the session's keys as the registry holds them now
CheckKey(t) ==
    /\ threads[t].pc = "check"
    /\ LET sid == Val(flask_session[RaceClient])
           old == SelectSeq([i \in 1..Len(chatbot_instances) |->
                                chatbot_instances[i].k],
                            LAMBDA k : StartsWith(k, sid))
       IN  threads' = [threads EXCEPT
                         ![t].pc = IF DictHas(chatbot_instances, threads[t].key)
                                   THEN "lookup"
                                   ELSE IF old = <<>> THEN "construct" ELSE "sweep",
                         ![t].old = IF DictHas(chatbot_instances, threads[t].key)
                                    THEN <<>> ELSE old]
    /\ UNCHANGED <<chatbot_instances, engines, db_pages, scrape_log, ret, uuids, http>>
    /\ RaceFrame

\* lines 84-86, one old key: chatbot_instances[old_key].close() and the del;
\* a key another request has deleted meanwhile raises KeyError (500)
SweepOne(t) ==
    /\ threads[t].pc = "sweep"
    /\ LET old_key == Head(threads[t].old)
           rest == Tail(threads[t].old)
       IN  IF DictHas(chatbot_instances, old_key)
           THEN /\ engines' = [engines EXCEPT
                                 ![DictGet(chatbot_instances, old_key)].closed = TRUE]
                /\ chatbot_instances' = DictDel(chatbot_instances, old_key)
                /\ threads' = [threads EXCEPT
                                 ![t].old = rest,
                                 ![t].pc = IF rest = <<>> THEN "construct" ELSE "sweep"]
                /\ UNCHANGED http
           ELSE /\ Finish(t, 500, <<Line("KeyError", "", 0)>>)
                /\ UNCHANGED <<chatbot_instances, engines>>
    /\ UNCHANGED <<db_pages, scrape_log, ret, uuids>>
    /\ RaceFrame

\* line 88: the engine is constructed and stored under the key, over
\* whatever another request stored there meanwhile
Construct(t, outcome) ==
    /\ threads[t].pc = "construct"
    /\ IF outcome = "TypeError"
       THEN /\ Finish(t, 500, <<Line("TypeError", "", 0)>>)
            /\ UNCHANGED <<chatbot_instances, engines, uuids>>
       ELSE /\ engines' = Append(engines,
                                 [bot |-> WebScrapingChatbot_init(threads[t].provider,
                                                                  environ, uuid4(uuids)),
                                  closed |-> FALSE,
                                  last_request_time |-> 0])
            /\ chatbot_instances' = DictSet(chatbot_instances, threads[t].key,
                                            Len(engines) + 1)
            /\ uuids' = uuids + 1
            /\ threads' = [threads EXCEPT ![t].pc = "lookup"]
            /\ UNCHANGED http
    /\ UNCHANGED <<db_pages, scrape_log, ret>>
    /\ RaceFrame

\* lines 90-91: the engine is looked up under the key (KeyError when another
\* request has deleted it) and process_message is entered
LookUp(t) ==
    /\ threads[t].pc = "lookup"
    /\ IF DictHas(chatbot_instances, threads[t].key)
       THEN /\ threads' = [threads EXCEPT
                             ![t].pc = "process_message",
                             ![t].chatbot = DictGet(chatbot_instances, threads[t].key)]
            /\ UNCHANGED http
       ELSE Finish(t, 500, <<Line("KeyError", "", 0)>>)
    /\ UNCHANGED <<chatbot_instances, engines, db_pages, scrape_log, ret, uuids>>
    /\ RaceFrame

\* lines 91-97: process_message returns and its response is sent; between
\* LookUp and this step the request is inside process_message
Answer(t, worlds, reply) ==
    /\ threads[t].pc = "process_message"
    /\ LET id == threads[t].chatbot
           r == process_message(engines[id].bot, db_pages, scrape_log,
                                threads[t].message, worlds, reply)
       IN  /\ engines' = [engines EXCEPT
                            ![id].bot = r.bot,
                            ![id].last_request_time =
                               IF Len(r.log) > Len(scrape_log) THEN http.n + 1 ELSE @]
           /\ db_pages' = r.db
           /\ scrape_log' = r.log
           /\ ret' = [text |-> threads[t].message.text,
                      action |-> IntentAction(threads[t].message),
                      raised |-> r.out.raised, reply |-> r.out.text]
           /\ Finish(t, IF r.out.raised THEN 500 ELSE 200, r.out.text)
    /\ UNCHANGED <<chatbot_instances, uuids>>
    /\ RaceFrame

NextRace ==
    \/ \E provider \in HostProviders, message \in HostMessages :
          Arrive(provider, message)
    \/ \E t \in 1..Len(threads) :
          \/ CheckKey(t)
          \/ SweepOne(t)
          \/ \E outcome \in ConstructorOutcomes : Construct(t, outcome)
          \/ LookUp(t)
          \/ LET urls == FindUrls(threads[t].message)
             IN  Answer(t, [i \in 1..Len(urls) |-> World(PageLong, "ok", "ok")],
                        "reply")

SpecRace == InitRace /\ [][NextRace]_vars

(***************************************************************************)
(* Claims about concurrent requests of one session                         *)
(***************************************************************************)
Inside(t) == threads[t].pc = "process_message"

\* C26: of the concurrent chat requests of one session at most one is
\* inside process_message on the session's engine at a time, none is inside
\* an engine that another request has closed, and the registry holds at
\* most one engine of the session.
C26_SerializedPerSession ==
    /\ \A t, u \in 1..Len(threads) :
          (t # u /\ Inside(t) /\ Inside(u)) => threads[t].chatbot # threads[u].chatbot
    /\ \A t \in 1..Len(threads) :
          Inside(t) => ~engines[threads[t].chatbot].closed
    /\ Cardinality(RegisteredFor(chatbot_instances,
                                 Val(flask_session[RaceClient]))) <= 1

\* C26, the interleaving: two requests of the session are inside
\* process_message on one engine at the same time
C26_W_TwoInsideOneEngine ==
    \E t, u \in 1..Len(threads) :
       /\ t # u /\ Inside(t) /\ Inside(u)
       /\ threads[t].chatbot = threads[u].chatbot

====
